---------------------------- MODULE Spec2Model ----------------------------
(***************************************************************************)
(* slips-core: the owner-scoped task / tag / checklist store and the RPC   *)
(* handlers that mutate it.  One action is one whole handler: the gRPC     *)
(* method, the application service it calls and the repository SQL.        *)
(***************************************************************************)
EXTENDS Integers, Sequences, FiniteSets, Bags, TLC

(***************************************************************************)
(* Bounds of the model.                                                    *)
(***************************************************************************)
MaxTasks == 2
MaxTags == 2
MaxItems == 2
TicksPerDay == 2

(***************************************************************************)
(* Input alphabets.                                                        *)
(***************************************************************************)
Users == {"u1", "u2"}
Titles == {"x", "y"}
Contents == {"c", "d"}
\* the calendar: DateTable[d] is the wire form of day d
DateTable == <<"2025-06-01", "2025-06-02">>
Days == 1..Len(DateTable)
\* a missing optional field of a request
Absent == "<absent>"
\* wire values a client can put in start_date
StartDateWire == {Absent, "", "not-a-date"} \cup {DateTable[d] : d \in Days}

NilTime == -1
NullDate == -1
NoTask == 0

VARIABLES
    tasks,        \* table tasks: id -> row
    nextTaskId,   \* ids handed out so far (gen_random_uuid never repeats)
    tags,         \* table tags: id -> row
    nextTagId,
    task_tags,    \* table task_tags: set of <<task_id, tag_id>>
    items,        \* table task_checklist_items: id -> row
    nextItemId,
    resp,         \* the response of the last handler
    scen,         \* history a specification keeps: how far each task's calls have
                  \* followed the start-date scenario, or the inputs of the last
                  \* request that its response does not repeat
    procs,        \* the getOrCreate calls in flight
    mcp_tokens,   \* table mcp_tokens: id -> row
    nextTokenId,
    clock,        \* time.Now()
    touches       \* bag of token ids: one copy per detached UpdateLastUsedAt
                  \* that has not run yet

storeVars == <<tasks, nextTaskId, tags, nextTagId, task_tags, items, nextItemId>>

tokenVars == <<mcp_tokens, nextTokenId, clock, touches>>


(***************************************************************************)
(* pkg/grpcerrors: validation and error mapping.                           *)
(***************************************************************************)
MaxTitleLength == 500
MaxNotesLength == 50000
MaxTagNameLength == 100

\* stand-ins for over-long strings; every other string has its TLA+ length
LongTitle == "<title of 501 bytes>"
LongNotes == "<notes of 50001 bytes>"
LongName == "<name of 101 bytes>"
StrLen(s) ==
    CASE s = LongTitle -> MaxTitleLength + 1
      [] s = LongNotes -> MaxNotesLength + 1
      [] s = LongName -> MaxTagNameLength + 1
      [] OTHER -> Len(s)

\* strings.TrimSpace(value) == ""
ValidateNotEmpty(value) == IF value \in {"", " "} THEN "InvalidArgument" ELSE "OK"

ValidateLength(value, maxLength) ==
    IF StrLen(value) > maxLength THEN "InvalidArgument" ELSE "OK"

\* store errors as the repository returns them
ErrNoRows == "pgx.ErrNoRows"
ErrUnique == "pg.23505"
ErrInvalidChecklistOrder == "ErrInvalidChecklistOrder"
\* any other failure of a statement (connection lost, timeout)
ErrStore == "store error"
NoErr == "nil"

\* a mapping that lacks the pgx.ErrNoRows case
ToGRPCErrorNoRowsCase(err, defaultMsg) ==
    CASE err = NoErr -> <<"OK", "">>
      [] err = ErrUnique -> <<"AlreadyExists", defaultMsg \o ": duplicate entry">>
      [] OTHER -> <<"Internal", defaultMsg>>

\* a conversion that blames the request for every failure it does not know
ToGRPCErrorBlamingRequest(err, defaultMsg) ==
    CASE err = NoErr -> <<"OK", "">>
      [] err = ErrNoRows -> <<"NotFound", defaultMsg>>
      [] err = ErrUnique -> <<"AlreadyExists", defaultMsg \o ": duplicate entry">>
      [] OTHER -> <<"InvalidArgument", defaultMsg>>

\* ToGRPCError: <<code, message>>
ToGRPCError(err, defaultMsg) ==
    CASE err = NoErr -> <<"OK", "">>
      [] err = ErrNoRows -> <<"NotFound", defaultMsg>>
      [] err = ErrUnique -> <<"AlreadyExists", defaultMsg \o ": duplicate entry">>
      [] OTHER -> <<"Internal", defaultMsg>>

(***************************************************************************)
(* Dates.  A time.Time is a count of ticks since day 0 (TicksPerDay ticks  *)
(* to a UTC day); a pgtype.Date is a day number; the wire form is the      *)
(* YYYY-MM-DD string of DateTable.                                         *)
(***************************************************************************)
IsDateString(s) == \E d \in Days : DateTable[d] = s

\* time.Parse("2006-01-02", s): midnight UTC of that day
ParseDate(s) == (CHOOSE d \in Days : DateTable[d] = s) * TicksPerDay

\* t.Format("2006-01-02")
FormatDate(t) == DateTable[t \div TicksPerDay]

\* a parser that files a task without a date under the first day
parseStartDateForCreateDefaultDay(datePtr) ==
    IF datePtr = Absent \/ datePtr = "" THEN <<"OK", ParseDate(DateTable[1])>>
    ELSE IF IsDateString(datePtr) THEN <<"OK", ParseDate(datePtr)>>
    ELSE <<"InvalidArgument", NilTime>>

\* parseStartDateForCreate: <<code, time>>
parseStartDateForCreate(datePtr) ==
    IF datePtr = Absent \/ datePtr = "" THEN <<"OK", NilTime>>
    ELSE IF IsDateString(datePtr) THEN <<"OK", ParseDate(datePtr)>>
    ELSE <<"InvalidArgument", NilTime>>

\* a parser that takes the empty string for a malformed date
parseStartDateForUpdateNoClear(datePtr) ==
    IF datePtr = Absent THEN <<"OK", NilTime>>
    ELSE IF IsDateString(datePtr) THEN <<"OK", ParseDate(datePtr)>>
    ELSE <<"InvalidArgument", NilTime>>

\* parseStartDateForUpdate: <<code, time>>
parseStartDateForUpdate(datePtr) ==
    IF datePtr = Absent \/ datePtr = "" THEN <<"OK", NilTime>>
    ELSE IF IsDateString(datePtr) THEN <<"OK", ParseDate(datePtr)>>
    ELSE <<"InvalidArgument", NilTime>>

\* timeToPgDate: the UTC calendar day of the instant, NULL for nil
timeToPgDate(t) == IF t # NilTime THEN t \div TicksPerDay ELSE NullDate

\* pgDateToTime: midnight of the stored day, nil for NULL
pgDateToTime(d) == IF d # NullDate THEN d * TicksPerDay ELSE NilTime


(***************************************************************************)
(* Sequence helpers.                                                       *)
(***************************************************************************)
Range(q) == {q[i] : i \in 1..Len(q)}

Min(S) == CHOOSE x \in S : \A y \in S : x <= y

RECURSIVE SetToSeq(_)
\* the elements of a set of integers, ascending
SetToSeq(S) == IF S = {} THEN <<>> ELSE <<Min(S)>> \o SetToSeq(S \ {Min(S)})

RECURSIVE SortIDs(_)
\* slices.SortFunc on ids: the sequence in ascending order, repeats kept
SortIDs(q) ==
    IF q = <<>> THEN <<>>
    ELSE LET m == Min(Range(q))
             k == CHOOSE i \in 1..Len(q) : q[i] = m
         IN <<m>> \o SortIDs(SubSeq(q, 1, k - 1) \o SubSeq(q, k + 1, Len(q)))

Take(q, n) == SubSeq(q, 1, IF n < Len(q) THEN n ELSE Len(q))

Reverse(q) == [i \in 1..Len(q) |-> q[Len(q) + 1 - i]]

(***************************************************************************)
(* Queries of task.sql, over explicit tables.                              *)
(***************************************************************************)
\* a GetTask that matches on the id alone
GetTaskFoundAnyOwner(tbl, id, ownerID) == id \in DOMAIN tbl

\* GetTask: WHERE id = $1 AND owner_id = $2
GetTaskFound(tbl, id, ownerID) == id \in DOMAIN tbl /\ tbl[id].owner_id = ownerID

\* GetTaskTagIDs: SELECT tag_id FROM task_tags WHERE task_id = $1
GetTaskTagIDs(tt, id) == SetToSeq({p[2] : p \in {q \in tt : q[1] = id}})

\* ORDER BY ci.sort_order ASC, ci.created_at ASC (ids are handed out in creation order)
ItemBefore(tbl, a, b) ==
    \/ tbl[a].sort_order < tbl[b].sort_order
    \/ tbl[a].sort_order = tbl[b].sort_order /\ a <= b

RECURSIVE OrderItems(_, _)
OrderItems(tbl, S) ==
    IF S = {} THEN <<>>
    ELSE LET f == CHOOSE a \in S : \A b \in S : ItemBefore(tbl, a, b)
         IN <<f>> \o OrderItems(tbl, S \ {f})

\* ListChecklistItems: the item ids of the task, joined to tasks on the owner
ListChecklistItemIDs(tk, it, taskID, ownerID) ==
    OrderItems(it, {i \in DOMAIN it : /\ it[i].task_id = taskID
                                       /\ it[i].task_id \in DOMAIN tk
                                       /\ tk[it[i].task_id].owner_id = ownerID})

\* checklistItemFromDB, then checklistItemToProto
ItemView(it, i) ==
    [id |-> i, task_id |-> it[i].task_id, content |-> it[i].content,
     completed |-> it[i].completed, sort_order |-> it[i].sort_order]

ItemViews(it, ids) == [k \in 1..Len(ids) |-> ItemView(it, ids[k])]

\* an insert that counts the rows of the task instead of taking MAX + 1 of
\* their positions, and so starts at one
NextSortOrderByCount(it, taskID) ==
    Cardinality({j \in DOMAIN it : it[j].task_id = taskID}) + 1

\* AddChecklistItem: COALESCE((SELECT MAX(sort_order) + 1 ...), 0)
NextSortOrder(it, taskID) ==
    LET S == {it[i].sort_order : i \in {j \in DOMAIN it : it[j].task_id = taskID}}
    IN IF S = {} THEN 0 ELSE (CHOOSE m \in S : \A x \in S : x <= m) + 1

\* ON DELETE CASCADE of task_tags.task_id and task_checklist_items.task_id
\* a junction table whose rows outlive their task
CascadeTaskTagsKeepsRows(tt, gone) == tt

CascadeTaskTags(tt, gone) == {p \in tt : p[1] \notin gone}
CascadeItems(it, gone) == [i \in {j \in DOMAIN it : it[j].task_id \notin gone} |-> it[i]]


(***************************************************************************)
(* Tag repository.  GetOrCreate and DeleteOrphans are declared by the tag  *)
(* domain's Repository interface and called by the task service; their     *)
(* bodies follow the design text (lookup by name and owner, insert when    *)
(* absent; delete the owner's tags that no task references).               *)
(***************************************************************************)
\* CREATE TABLE tags: name VARCHAR(100) NOT NULL UNIQUE.  A row other than
\* selfID already carries the name, whoever owns it.
TagNameTaken(tg, name, ownerID, selfID) ==
    \E t \in DOMAIN tg : t # selfID /\ tg[t].name = name

TagIDsByName(tg, name, ownerID) ==
    {t \in DOMAIN tg : tg[t].name = name /\ tg[t].owner_id = ownerID}

\* st = [tags, next, ids, err]: the table, the next fresh id, the ids resolved so
\* far, the first error.  Lookup by (name, owner); insert when absent; an insert
\* the constraint refuses is answered by fetching the (name, owner) row again;
\* a name that does not fit the column (name VARCHAR(100)) fails the insert.
GetOrCreate(st, name, ownerID) ==
    LET found == TagIDsByName(st.tags, name, ownerID)
    IN IF found # {}
       THEN [st EXCEPT !.ids = Append(@, CHOOSE t \in found : TRUE)]
       ELSE IF TagNameTaken(st.tags, name, ownerID, NoTask)
       THEN [st EXCEPT !.err = ErrNoRows]
       ELSE IF StrLen(name) > MaxTagNameLength
       THEN [st EXCEPT !.err = ErrStore]
       ELSE [st EXCEPT !.tags = @ @@ (st.next :> [name |-> name, owner_id |-> ownerID]),
                       !.next = @ + 1,
                       !.ids = Append(@, st.next)]

RECURSIVE ResolveTagNames(_, _, _)
\* for _, tagName := range tagNames { tag, err := s.tagRepo.GetOrCreate(...) }:
\* the first error ends the loop, what was inserted before it stays
ResolveTagNames(names, ownerID, st) ==
    IF names = <<>> \/ st.err # NoErr THEN st
    ELSE ResolveTagNames(Tail(names), ownerID, GetOrCreate(st, Head(names), ownerID))

DeleteOrphans(tg, tt, ownerID) ==
    [t \in {x \in DOMAIN tg : ~(tg[x].owner_id = ownerID /\ ~\E p \in tt : p[2] = x)} |-> tg[t]]

\* s.tagRepo.DeleteOrphans(ctx, userID) at the end of a task operation: a call
\* that fails with cleanupErr has deleted nothing
CleanUpOrphans(tg, tt, ownerID, cleanupErr) ==
    IF cleanupErr # NoErr THEN tg ELSE DeleteOrphans(tg, tt, ownerID)

\* a service that hands the cleanup's error to its caller
ReturnCleanupError(cleanupErr) == cleanupErr

\* if err := s.tagRepo.DeleteOrphans(...); err != nil { Warn }: what the task
\* operation returns after the cleanup
SwallowCleanupError(cleanupErr) == NoErr

(***************************************************************************)
(* Task domain (Task, NewTask, Update, SetStartDate) and its wire form.    *)
(***************************************************************************)
NewTask(title, notes, ownerID, tagIDs) ==
    [ID |-> NoTask, Title |-> title, Notes |-> notes, TagIDs |-> tagIDs,
     Checklist |-> <<>>, OwnerID |-> ownerID, Archived |-> FALSE, StartDate |-> NilTime]

Update(t, title, notes, tagIDs) ==
    [t EXCEPT !.Title = title, !.Notes = notes, !.TagIDs = tagIDs]

SetStartDate(t, date) == [t EXCEPT !.StartDate = date]

taskToProto(t) ==
    [id |-> t.ID, title |-> t.Title, notes |-> t.Notes, tag_ids |-> t.TagIDs,
     checklist_items |-> t.Checklist, archived |-> t.Archived,
     start_date |-> IF t.StartDate # NilTime THEN FormatDate(t.StartDate) ELSE Absent]

\* TaskRepository.Get, for a row that GetTask found
RepoGetTask(tk, tt, it, id, ownerID) ==
    [ID |-> id, Title |-> tk[id].title, Notes |-> tk[id].notes,
     TagIDs |-> GetTaskTagIDs(tt, id),
     Checklist |-> ItemViews(it, ListChecklistItemIDs(tk, it, id, ownerID)),
     OwnerID |-> tk[id].owner_id, Archived |-> tk[id].archived,
     StartDate |-> pgDateToTime(tk[id].start_date)]

\* TaskRepository.Archive / Unarchive build the task without its checklist
RepoTaskNoChecklist(tk, tt, id) ==
    [ID |-> id, Title |-> tk[id].title, Notes |-> tk[id].notes,
     TagIDs |-> GetTaskTagIDs(tt, id), Checklist |-> <<>>,
     OwnerID |-> tk[id].owner_id, Archived |-> tk[id].archived,
     StartDate |-> pgDateToTime(tk[id].start_date)]

(***************************************************************************)
(* Requests and responses.                                                 *)
(***************************************************************************)
Req(op, caller, id, sd, itemIDs) ==
    [op |-> op, caller |-> caller, id |-> id, start_date |-> sd, item_ids |-> itemIDs]

Resp(req, code, msg, err, taskList, itemList, tagList) ==
    [req |-> req, code |-> code, msg |-> msg, err |-> err,
     tasks |-> taskList, items |-> itemList, tags |-> tagList]

Fail(req, code, msg, err) == Resp(req, code, msg, err, <<>>, <<>>, <<>>)

GRPCFail(req, err, defaultMsg) ==
    Fail(req, ToGRPCError(err, defaultMsg)[1], ToGRPCError(err, defaultMsg)[2], err)

\* the three input checks CreateTask and UpdateTask share
ValidateTaskInput(title, notes) ==
    /\ ValidateNotEmpty(title) = "OK"
    /\ ValidateLength(title, MaxTitleLength) = "OK"
    /\ ValidateLength(notes, MaxNotesLength) = "OK"


(***************************************************************************)
(* Task handlers.                                                          *)
(***************************************************************************)
\* Service.CreateTask: task.Checklist, one item per seed string, SortOrder int32(i)
SeedItems(checklistItems) ==
    [k \in 1..Len(checklistItems) |->
        [Content |-> checklistItems[k], Completed |-> FALSE, SortOrder |-> k - 1]]

\* the task a successful Service.CreateTask hands to the repository
ServiceCreateTask(title, notes, ownerID, tagIDs, startDate) ==
    SetStartDate(NewTask(title, notes, ownerID, tagIDs), startDate)

\* the seeded items as the create response shows them: TaskRepository.Create
\* stores the task row and its tag associations and leaves task.Checklist as
\* the service built it, ids unset
UnsavedItemViews(checklist) ==
    [k \in 1..Len(checklist) |->
        [id |-> NoTask, task_id |-> NoTask, content |-> checklist[k].Content,
         completed |-> checklist[k].Completed, sort_order |-> checklist[k].SortOrder]]

\* TaskRepository.Create: the row of CreateTask :one
CreateTaskRow(t) ==
    [owner_id |-> t.OwnerID, title |-> t.Title, notes |-> t.Notes,
     archived |-> FALSE, start_date |-> timeToPgDate(t.StartDate)]

\* the associations TaskRepository.Create has inserted when its failAt-th
\* CreateTaskTag statement fails (failAt = 0: none fails)
CreateTaskTags(tt, id, tagIDs, failAt) ==
    LET last == IF failAt \in 1..Len(tagIDs) THEN failAt - 1 ELSE Len(tagIDs)
    IN tt \cup {<<id, tagIDs[k]>> : k \in 1..last}

CreateTask(u, title, notes, tagNames, sd, seed, failAt) ==
    LET req == Req("CreateTask", u, NoTask, sd, <<>>)
        parsed == parseStartDateForCreate(sd)
    IN IF ~ValidateTaskInput(title, notes) \/ parsed[1] # "OK"
       THEN /\ resp' = Fail(req, "InvalidArgument", "invalid create request", NoErr)
            /\ UNCHANGED storeVars
       ELSE LET st == ResolveTagNames(tagNames, u,
                          [tags |-> tags, next |-> nextTagId, ids |-> <<>>, err |-> NoErr])
                id == nextTaskId
                t == ServiceCreateTask(title, notes, u, st.ids, parsed[2])
                row == CreateTaskRow(t)
                tk == tasks @@ (id :> row)
                out == [t EXCEPT !.ID = id,
                                 !.StartDate = pgDateToTime(row.start_date),
                                 !.Checklist = UnsavedItemViews(SeedItems(seed))]
            IN IF st.err # NoErr
               THEN /\ tags' = st.tags
                    /\ nextTagId' = st.next
                    /\ resp' = GRPCFail(req, st.err, "failed to create task")
                    /\ UNCHANGED <<tasks, nextTaskId, task_tags, items, nextItemId>>
               ELSE IF failAt \in 1..Len(st.ids)
               THEN /\ tasks' = tk
                    /\ nextTaskId' = nextTaskId + 1
                    /\ tags' = st.tags
                    /\ nextTagId' = st.next
                    /\ task_tags' = CreateTaskTags(task_tags, id, st.ids, failAt)
                    /\ resp' = GRPCFail(req, ErrStore, "failed to create task")
                    /\ UNCHANGED <<items, nextItemId>>
               ELSE /\ tasks' = tk
                    /\ nextTaskId' = nextTaskId + 1
                    /\ tags' = st.tags
                    /\ nextTagId' = st.next
                    /\ task_tags' = CreateTaskTags(task_tags, id, st.ids, failAt)
                    /\ UNCHANGED <<items, nextItemId>>
                    /\ resp' = Resp(req, "OK", "", NoErr, <<taskToProto(out)>>, <<>>, <<>>)

\* TaskServer.GetTask: what the caller receives, from the tables it reads
GetTaskResp(tk, tt, it, u, id) ==
    LET req == Req("GetTask", u, id, Absent, <<>>)
    IN IF GetTaskFound(tk, id, u)
       THEN Resp(req, "OK", "", NoErr,
                 <<taskToProto(RepoGetTask(tk, tt, it, id, u))>>, <<>>, <<>>)
       ELSE GRPCFail(req, ErrNoRows, "failed to get task")

GetTask(u, id) ==
    /\ resp' = GetTaskResp(tasks, task_tags, items, u, id)
    /\ UNCHANGED storeVars

\* a service that applies the start date whether or not it was provided
ServiceUpdateTaskAlwaysSets(loaded, title, notes, tagIDs, startDateProvided, startDate) ==
    SetStartDate(Update(loaded, title, notes, tagIDs), startDate)

\* Service.UpdateTask after a successful Get: the task handed to the repository
ServiceUpdateTask(loaded, title, notes, tagIDs, startDateProvided, startDate) ==
    LET t == Update(loaded, title, notes, tagIDs)
    IN IF startDateProvided THEN SetStartDate(t, startDate) ELSE t

\* an update statement that writes owner_id as well, from a task whose owner
\* the service has reset
UpdateTaskRowWithOwner(old, t) ==
    [old EXCEPT !.title = t.Title, !.notes = t.Notes,
                !.start_date = timeToPgDate(t.StartDate), !.owner_id = ""]

\* TaskRepository.Update: the row after UpdateTask :one
UpdateTaskRow(old, t) ==
    [old EXCEPT !.title = t.Title, !.notes = t.Notes,
                !.start_date = timeToPgDate(t.StartDate)]

UpdateTask(u, id, title, notes, tagNames, sd, cleanupErr) ==
    LET req == Req("UpdateTask", u, id, sd, <<>>)
        startDateProvided == sd # Absent
        parsed == IF startDateProvided THEN parseStartDateForUpdate(sd)
                  ELSE <<"OK", NilTime>>
    IN IF ~ValidateTaskInput(title, notes) \/ parsed[1] # "OK"
       THEN /\ resp' = Fail(req, "InvalidArgument", "invalid update request", NoErr)
            /\ UNCHANGED storeVars
       ELSE IF ~GetTaskFound(tasks, id, u)
       THEN /\ resp' = GRPCFail(req, ErrNoRows, "failed to update task")
            /\ UNCHANGED storeVars
       ELSE LET loaded == RepoGetTask(tasks, task_tags, items, id, u)
                st == ResolveTagNames(tagNames, u,
                          [tags |-> tags, next |-> nextTagId, ids |-> <<>>, err |-> NoErr])
                t == ServiceUpdateTask(loaded, title, notes, st.ids,
                                       startDateProvided, parsed[2])
                tt == {p \in task_tags : p[1] # id}
                         \cup {<<id, st.ids[k]>> : k \in 1..Len(st.ids)}
            IN IF st.err # NoErr
               THEN /\ tags' = st.tags
                    /\ nextTagId' = st.next
                    /\ resp' = GRPCFail(req, st.err, "failed to update task")
                    /\ UNCHANGED <<tasks, nextTaskId, task_tags, items, nextItemId>>
               ELSE /\ tasks' = [tasks EXCEPT ![id] = UpdateTaskRow(@, t)]
                    /\ task_tags' = tt
                    /\ tags' = CleanUpOrphans(st.tags, tt, u, cleanupErr)
                    /\ nextTagId' = st.next
                    /\ resp' = IF SwallowCleanupError(cleanupErr) # NoErr
                               THEN GRPCFail(req, SwallowCleanupError(cleanupErr),
                                             "failed to update task")
                               ELSE Resp(req, "OK", "", NoErr, <<taskToProto(t)>>, <<>>, <<>>)
                    /\ UNCHANGED <<nextTaskId, items, nextItemId>>

\* DeleteTask :exec: WHERE id = $1 AND owner_id = $2
DeleteTaskRows(tk, id, ownerID) == {x \in DOMAIN tk : x = id /\ tk[x].owner_id = ownerID}

DeleteTask(u, id, cleanupErr) ==
    LET req == Req("DeleteTask", u, id, Absent, <<>>)
        gone == DeleteTaskRows(tasks, id, u)
        tt == CascadeTaskTags(task_tags, gone)
    IN /\ tasks' = [x \in DOMAIN tasks \ gone |-> tasks[x]]
       /\ task_tags' = tt
       /\ items' = CascadeItems(items, gone)
       /\ tags' = CleanUpOrphans(tags, tt, u, cleanupErr)
       /\ resp' = IF SwallowCleanupError(cleanupErr) # NoErr
                  THEN GRPCFail(req, SwallowCleanupError(cleanupErr), "failed to delete task")
                  ELSE Resp(req, "OK", "", NoErr, <<>>, <<>>, <<>>)
       /\ UNCHANGED <<nextTaskId, nextTagId, nextItemId>>

\* an archive statement that also removes the task's tag associations
SetArchivedDroppingTags(op, u, id, flag, defaultMsg) ==
    LET req == Req(op, u, id, Absent, <<>>)
    IN IF ~GetTaskFound(tasks, id, u)
       THEN /\ resp' = GRPCFail(req, ErrNoRows, defaultMsg)
            /\ UNCHANGED storeVars
       ELSE LET tk == [tasks EXCEPT ![id].archived = flag]
                tt == {p \in task_tags : p[1] # id}
            IN /\ tasks' = tk
               /\ task_tags' = tt
               /\ resp' = Resp(req, "OK", "", NoErr,
                               <<taskToProto(RepoTaskNoChecklist(tk, tt, id))>>,
                               <<>>, <<>>)
               /\ UNCHANGED <<nextTaskId, tags, nextTagId, items, nextItemId>>

\* ArchiveTask / UnarchiveTask :one: WHERE id = $1 AND owner_id = $2
SetArchived(op, u, id, flag, defaultMsg) ==
    LET req == Req(op, u, id, Absent, <<>>)
    IN IF ~GetTaskFound(tasks, id, u)
       THEN /\ resp' = GRPCFail(req, ErrNoRows, defaultMsg)
            /\ UNCHANGED storeVars
       ELSE LET tk == [tasks EXCEPT ![id].archived = flag]
            IN /\ tasks' = tk
               /\ resp' = Resp(req, "OK", "", NoErr,
                               <<taskToProto(RepoTaskNoChecklist(tk, task_tags, id))>>,
                               <<>>, <<>>)
               /\ UNCHANGED <<nextTaskId, tags, nextTagId, task_tags, items, nextItemId>>

ArchiveTask(u, id) == SetArchived("ArchiveTask", u, id, TRUE, "failed to archive task")

UnarchiveTask(u, id) == SetArchived("UnarchiveTask", u, id, FALSE, "failed to unarchive task")


\* a page size that is capped at 100 and otherwise taken as it comes
EffectivePageSizeCapped(pageSize) == IF pageSize > 100 THEN 100 ELSE pageSize

\* pageSize <= 0 || pageSize > 100 => 30
EffectivePageSize(pageSize) == IF pageSize <= 0 \/ pageSize > 100 THEN 30 ELSE pageSize

\* FROM tasks t LEFT JOIN task_tags tt ON t.id = tt.task_id, for one task: a
\* row per tag of the task, or one row with a NULL tag_id (<<>>) for a task
\* without tags
LeftJoinTaskTags(tt, id) ==
    IF \E p \in tt : p[1] = id
    THEN {<<id, <<p[2]>>>> : p \in {q \in tt : q[1] = id}}
    ELSE {<<id, <<>>>>}

\* a WHERE clause whose include_archived flag is looked at first
ListTasksWhereIncludeFirst(tk, row, ownerID, filterTagIDs, includeArchived, archivedOnly) ==
    /\ tk[row[1]].owner_id = ownerID
    /\ \/ filterTagIDs = {}
       \/ row[2] # <<>> /\ row[2][1] \in filterTagIDs
    /\ \/ includeArchived
       \/ ~includeArchived /\ (tk[row[1]].archived <=> archivedOnly)

\* the WHERE clause of ListTasks :many on one joined row; both archive flags
\* arrive as valid booleans, and the filter is NULL when it names no tag
ListTasksWhere(tk, row, ownerID, filterTagIDs, includeArchived, archivedOnly) ==
    /\ tk[row[1]].owner_id = ownerID
    /\ \/ filterTagIDs = {}
       \/ row[2] # <<>> /\ row[2][1] \in filterTagIDs
    /\ \/ archivedOnly /\ tk[row[1]].archived
       \/ ~archivedOnly /\ (includeArchived \/ ~tk[row[1]].archived)

\* the task has a joined row that passes the WHERE clause
ListTasksMatch(tk, tt, id, ownerID, filterTagIDs, includeArchived, archivedOnly) ==
    \E row \in LeftJoinTaskTags(tt, id) :
        ListTasksWhere(tk, row, ownerID, filterTagIDs, includeArchived, archivedOnly)

\* the task ids of the joined rows that pass the WHERE clause, a task once
\* per passing row, newest task first
RECURSIVE ListTasksRows(_, _, _, _, _, _, _)
ListTasksRows(tk, tt, ids, ownerID, filterTagIDs, includeArchived, archivedOnly) ==
    IF ids = <<>> THEN <<>>
    ELSE LET n == Cardinality({row \in LeftJoinTaskTags(tt, Head(ids)) :
                        ListTasksWhere(tk, row, ownerID, filterTagIDs,
                                       includeArchived, archivedOnly)})
         IN [k \in 1..n |-> Head(ids)]
            \o ListTasksRows(tk, tt, Tail(ids), ownerID, filterTagIDs,
                             includeArchived, archivedOnly)

\* a SELECT that keeps every joined row
SelectAll(q) == q

\* SELECT DISTINCT: the selected columns are the task's alone, so the rows of
\* one task collapse into one
RECURSIVE SelectDistinct(_)
SelectDistinct(q) ==
    IF q = <<>> THEN <<>>
    ELSE <<Head(q)>> \o SelectDistinct(SelectSeq(Tail(q), LAMBDA x : x # Head(q)))

\* ORDER BY t.created_at DESC LIMIT $2 OFFSET 0
ListTaskIDs(tk, tt, ownerID, filterTagIDs, limit, includeArchived, archivedOnly) ==
    Take(SelectDistinct(ListTasksRows(tk, tt, Reverse(SetToSeq(DOMAIN tk)), ownerID,
                                      filterTagIDs, includeArchived, archivedOnly)),
         limit)

ListTasks(u, filterTagIDs, pageSize, includeArchived, archivedOnly) ==
    LET req == Req("ListTasks", u, NoTask, Absent, <<>>)
        ids == ListTaskIDs(tasks, task_tags, u, filterTagIDs,
                           EffectivePageSize(pageSize), includeArchived, archivedOnly)
    IN /\ resp' = Resp(req, "OK", "", NoErr,
                       [k \in 1..Len(ids) |->
                            taskToProto(RepoTaskNoChecklist(tasks, task_tags, ids[k]))],
                       <<>>, <<>>)
       /\ UNCHANGED storeVars

(***************************************************************************)
(* Tag handlers.                                                           *)
(***************************************************************************)
ControlName == "a\tb"

ValidateTagName(name) ==
    IF \/ ValidateNotEmpty(name) # "OK"
       \/ ValidateLength(name, MaxTagNameLength) # "OK"
       \/ name = ControlName
    THEN "InvalidArgument" ELSE "OK"

\* GetTag :one: WHERE id = $1 AND owner_id = $2
GetTagFound(tg, id, ownerID) == id \in DOMAIN tg /\ tg[id].owner_id = ownerID

TagView(tg, id) == [id |-> id, name |-> tg[id].name]

CreateTag(u, name) ==
    LET req == Req("CreateTag", u, NoTask, Absent, <<>>)
    IN IF ValidateTagName(name) # "OK"
       THEN /\ resp' = Fail(req, "InvalidArgument", "invalid tag name", NoErr)
            /\ UNCHANGED storeVars
       ELSE IF TagNameTaken(tags, name, u, NoTask)
       THEN /\ resp' = GRPCFail(req, ErrUnique, "failed to create tag")
            /\ UNCHANGED storeVars
       ELSE LET tg == tags @@ (nextTagId :> [name |-> name, owner_id |-> u])
            IN /\ tags' = tg
               /\ nextTagId' = nextTagId + 1
               /\ resp' = Resp(req, "OK", "", NoErr, <<>>, <<>>, <<TagView(tg, nextTagId)>>)
               /\ UNCHANGED <<tasks, nextTaskId, task_tags, items, nextItemId>>

\* TagServer.GetTag: what the caller receives, from the table it reads
GetTagResp(tg, u, id) ==
    LET req == Req("GetTag", u, id, Absent, <<>>)
    IN IF GetTagFound(tg, id, u)
       THEN Resp(req, "OK", "", NoErr, <<>>, <<>>, <<TagView(tg, id)>>)
       ELSE GRPCFail(req, ErrNoRows, "failed to get tag")

GetTag(u, id) ==
    /\ resp' = GetTagResp(tags, u, id)
    /\ UNCHANGED storeVars

UpdateTag(u, id, name) ==
    LET req == Req("UpdateTag", u, id, Absent, <<>>)
    IN IF ValidateTagName(name) # "OK"
       THEN /\ resp' = Fail(req, "InvalidArgument", "invalid tag name", NoErr)
            /\ UNCHANGED storeVars
       ELSE IF ~GetTagFound(tags, id, u)
       THEN /\ resp' = GRPCFail(req, ErrNoRows, "failed to update tag")
            /\ UNCHANGED storeVars
       ELSE IF TagNameTaken(tags, name, u, id)
       THEN /\ resp' = GRPCFail(req, ErrUnique, "failed to update tag")
            /\ UNCHANGED storeVars
       ELSE LET tg == [tags EXCEPT ![id].name = name]
            IN /\ tags' = tg
               /\ resp' = Resp(req, "OK", "", NoErr, <<>>, <<>>, <<TagView(tg, id)>>)
               /\ UNCHANGED <<tasks, nextTaskId, nextTagId, task_tags, items, nextItemId>>

\* DeleteTag :exec: WHERE id = $1 AND owner_id = $2
DeleteTagRows(tg, id, ownerID) == {x \in DOMAIN tg : x = id /\ tg[x].owner_id = ownerID}

DeleteTag(u, id) ==
    LET req == Req("DeleteTag", u, id, Absent, <<>>)
        gone == DeleteTagRows(tags, id, u)
    IN /\ tags' = [x \in DOMAIN tags \ gone |-> tags[x]]
       /\ task_tags' = {p \in task_tags : p[2] \notin gone}
       /\ resp' = Resp(req, "OK", "", NoErr, <<>>, <<>>, <<>>)
       /\ UNCHANGED <<tasks, nextTaskId, nextTagId, items, nextItemId>>

\* tag names in ascending (byte) order, for ORDER BY name ASC
NameOrder == <<"a", "b">>
NameRank(n) == CHOOSE i \in 1..Len(NameOrder) : NameOrder[i] = n
TagNames == {NameOrder[i] : i \in 1..Len(NameOrder)}

RECURSIVE OrderTags(_, _)
OrderTags(tg, S) ==
    IF S = {} THEN <<>>
    ELSE LET f == CHOOSE a \in S : \A b \in S :
                      \/ NameRank(tg[a].name) < NameRank(tg[b].name)
                      \/ NameRank(tg[a].name) = NameRank(tg[b].name) /\ a <= b
         IN <<f>> \o OrderTags(tg, S \ {f})

\* ListTags :many: WHERE owner_id = $1 ORDER BY name ASC LIMIT $2 OFFSET 0
ListTagIDs(tg, ownerID, limit) ==
    Take(OrderTags(tg, {t \in DOMAIN tg : tg[t].owner_id = ownerID}), limit)

ListTags(u, pageSize) ==
    LET req == Req("ListTags", u, NoTask, Absent, <<>>)
        ids == ListTagIDs(tags, u, EffectivePageSize(pageSize))
    IN /\ resp' = Resp(req, "OK", "", NoErr, <<>>, <<>>,
                       [k \in 1..Len(ids) |-> TagView(tags, ids[k])])
       /\ UNCHANGED storeVars


(***************************************************************************)
(* Checklist handlers.                                                     *)
(***************************************************************************)
\* an item statement without the join on tasks
ItemOwnedByAnyOwner(tk, it, itemID, ownerID) == itemID \in DOMAIN it

\* the item's parent task belongs to the caller (the join on tasks t)
ItemOwned(tk, it, itemID, ownerID) ==
    /\ itemID \in DOMAIN it
    /\ it[itemID].task_id \in DOMAIN tk
    /\ tk[it[itemID].task_id].owner_id = ownerID

\* a checklist content longer than grpcerrors.MaxChecklistItemLength
LongContent == "<content over the maximum length>"

\* grpcerrors.ValidateLength(req.Content, "content", grpcerrors.MaxChecklistItemLength)
ValidateContentLength(content) == IF content = LongContent THEN "InvalidArgument" ELSE "OK"

AddChecklistItem(u, taskID, content) ==
    LET req == Req("AddChecklistItem", u, taskID, Absent, <<>>)
    IN IF ValidateNotEmpty(content) # "OK"
       THEN /\ resp' = Fail(req, "InvalidArgument", "content cannot be empty", NoErr)
            /\ UNCHANGED storeVars
       ELSE IF ValidateContentLength(content) # "OK"
       THEN /\ resp' = Fail(req, "InvalidArgument", "content exceeds maximum length", NoErr)
            /\ UNCHANGED storeVars
       ELSE IF ~GetTaskFound(tasks, taskID, u)
       THEN /\ resp' = GRPCFail(req, ErrNoRows, "failed to add checklist item")
            /\ UNCHANGED storeVars
       ELSE LET its == items @@ (nextItemId :>
                          [task_id |-> taskID, content |-> content, completed |-> FALSE,
                           sort_order |-> NextSortOrder(items, taskID)])
            IN /\ items' = its
               /\ nextItemId' = nextItemId + 1
               /\ resp' = Resp(req, "OK", "", NoErr, <<>>, <<ItemView(its, nextItemId)>>, <<>>)
               /\ UNCHANGED <<tasks, nextTaskId, tags, nextTagId, task_tags>>

UpdateChecklistItem(u, itemID, content) ==
    LET req == Req("UpdateChecklistItem", u, itemID, Absent, <<>>)
    IN IF ValidateNotEmpty(content) # "OK"
       THEN /\ resp' = Fail(req, "InvalidArgument", "content cannot be empty", NoErr)
            /\ UNCHANGED storeVars
       ELSE IF ValidateContentLength(content) # "OK"
       THEN /\ resp' = Fail(req, "InvalidArgument", "content exceeds maximum length", NoErr)
            /\ UNCHANGED storeVars
       ELSE IF ~ItemOwned(tasks, items, itemID, u)
       THEN /\ resp' = GRPCFail(req, ErrNoRows, "failed to update checklist item")
            /\ UNCHANGED storeVars
       ELSE LET its == [items EXCEPT ![itemID].content = content]
            IN /\ items' = its
               /\ resp' = Resp(req, "OK", "", NoErr, <<>>, <<ItemView(its, itemID)>>, <<>>)
               /\ UNCHANGED <<tasks, nextTaskId, tags, nextTagId, task_tags, nextItemId>>

SetChecklistItemCompleted(u, itemID, completed) ==
    LET req == Req("SetChecklistItemCompleted", u, itemID, Absent, <<>>)
    IN IF ~ItemOwned(tasks, items, itemID, u)
       THEN /\ resp' = GRPCFail(req, ErrNoRows, "failed to set checklist item completion")
            /\ UNCHANGED storeVars
       ELSE LET its == [items EXCEPT ![itemID].completed = completed]
            IN /\ items' = its
               /\ resp' = Resp(req, "OK", "", NoErr, <<>>, <<ItemView(its, itemID)>>, <<>>)
               /\ UNCHANGED <<tasks, nextTaskId, tags, nextTagId, task_tags, nextItemId>>

\* DeleteChecklistItem :execrows; the other rows keep their sort_order
DeleteChecklistItemRows(tk, it, itemID, ownerID) ==
    {i \in DOMAIN it : i = itemID /\ ItemOwned(tk, it, i, ownerID)}

DeleteChecklistItem(u, itemID) ==
    LET req == Req("DeleteChecklistItem", u, itemID, Absent, <<>>)
        gone == DeleteChecklistItemRows(tasks, items, itemID, u)
    IN IF gone = {}
       THEN /\ resp' = GRPCFail(req, ErrNoRows, "failed to delete checklist item")
            /\ UNCHANGED storeVars
       ELSE /\ items' = [i \in DOMAIN items \ gone |-> items[i]]
            /\ resp' = Resp(req, "OK", "", NoErr, <<>>, <<>>, <<>>)
            /\ UNCHANGED <<tasks, nextTaskId, tags, nextTagId, task_tags, nextItemId>>

\* a validation that stops after the length check
ValidOrderLengthOnly(existingIDs, itemIDs) == Len(existingIDs) = Len(itemIDs)

\* Service.ReorderChecklistItems: the length check, then the sorted comparison
ValidOrder(existingIDs, itemIDs) ==
    /\ Len(existingIDs) = Len(itemIDs)
    /\ SortIDs(existingIDs) = SortIDs(itemIDs)

\* an UPDATE that stores the ordinal itself
ReorderRowsOrdinal(tk, it, taskID, ownerID, itemIDs) ==
    [i \in DOMAIN it |->
        IF /\ GetTaskFound(tk, taskID, ownerID)
           /\ it[i].task_id = taskID
           /\ i \in Range(itemIDs)
        THEN [it[i] EXCEPT !.sort_order = Min({k \in 1..Len(itemIDs) : itemIDs[k] = i})]
        ELSE it[i]]

\* ReorderChecklistItems :exec: sort_order = ord - 1 for the rows of the task
\* whose id is in the list (the list has no repeats when the service calls it)
ReorderRows(tk, it, taskID, ownerID, itemIDs) ==
    [i \in DOMAIN it |->
        IF /\ GetTaskFound(tk, taskID, ownerID)
           /\ it[i].task_id = taskID
           /\ i \in Range(itemIDs)
        THEN [it[i] EXCEPT !.sort_order =
                  Min({k \in 1..Len(itemIDs) : itemIDs[k] = i}) - 1]
        ELSE it[i]]

ReorderChecklistItems(u, taskID, itemIDs) ==
    LET req == Req("ReorderChecklistItems", u, taskID, Absent, itemIDs)
    IN IF Len(itemIDs) = 0
       THEN /\ resp' = Fail(req, "InvalidArgument", "item_ids cannot be empty", NoErr)
            /\ UNCHANGED storeVars
       ELSE IF ~ValidOrder(ListChecklistItemIDs(tasks, items, taskID, u), itemIDs)
       THEN /\ resp' = Fail(req, "InvalidArgument",
                            "item_ids must include all checklist item IDs exactly once",
                            ErrInvalidChecklistOrder)
            /\ UNCHANGED storeVars
       ELSE LET its == ReorderRows(tasks, items, taskID, u, itemIDs)
            IN /\ items' = its
               /\ resp' = Resp(req, "OK", "", NoErr, <<>>,
                               ItemViews(its, ListChecklistItemIDs(tasks, its, taskID, u)),
                               <<>>)
               /\ UNCHANGED <<tasks, nextTaskId, tags, nextTagId, task_tags, nextItemId>>

(***************************************************************************)
(* The store after start-up: empty tables, nothing answered yet.           *)
(***************************************************************************)
NoReq == Req("none", "", NoTask, Absent, <<>>)

InitStore ==
    /\ tasks = <<>>
    /\ nextTaskId = 1
    /\ tags = <<>>
    /\ nextTagId = 1
    /\ task_tags = {}
    /\ items = <<>>
    /\ nextItemId = 1
    /\ resp = Resp(NoReq, "OK", "", NoErr, <<>>, <<>>, <<>>)
    /\ scen = <<>>
    /\ procs = <<>>
    /\ mcp_tokens = <<>>
    /\ nextTokenId = 1
    /\ clock = 1
    /\ touches = EmptyBag

vars == <<tasks, nextTaskId, tags, nextTagId, task_tags, items, nextItemId, resp, scen, procs,
          mcp_tokens, nextTokenId, clock, touches>>

\* all sequences over S of length at most n
SeqsUpTo(S, n) == UNION {[1..k -> S] : k \in 0..n}

(***************************************************************************)
(* Spec: every handler, two callers.  Tags and checklist items never meet  *)
(* in a handler (none reads one table and writes the other), so a run      *)
(* works either with tags or with checklist items next to its tasks.       *)
(***************************************************************************)
Within == nextTaskId <= MaxTasks + 1 /\ nextTagId <= MaxTags + 1 /\ nextItemId <= MaxItems + 1

TaskIDs == 1..MaxTasks
TagIDs == 1..MaxTags
ItemIDs == 1..MaxItems

Init == InitStore

\* tasks alone: every field a task handler writes
TaskHandlers ==
    \/ \E u \in Users : CreateTask(u, "x", "", <<>>, Absent, <<>>, 0)
    \/ \E u \in Users, id \in TaskIDs : GetTask(u, id)
    \/ \E u \in Users, id \in TaskIDs : UpdateTask(u, id, "y", "", <<>>, Absent, NoErr)
    \/ \E u \in Users, id \in TaskIDs : DeleteTask(u, id, NoErr)
    \/ \E u \in Users, id \in TaskIDs : ArchiveTask(u, id)
    \/ \E u \in Users, id \in TaskIDs : UnarchiveTask(u, id)
    \/ \E u \in Users, inc \in BOOLEAN, only \in BOOLEAN : ListTasks(u, {}, 0, inc, only)

\* tasks with tags
TagHandlers ==
    \/ \E u \in Users : CreateTask(u, "x", "", <<"a">>, Absent, <<>>, 0)
    \/ \E u \in Users, id \in TaskIDs : GetTask(u, id)
    \/ \E u \in Users, id \in TaskIDs : UpdateTask(u, id, "x", "", <<"b">>, Absent, NoErr)
    \/ \E u \in Users, id \in TaskIDs : DeleteTask(u, id, NoErr)
    \/ \E u \in Users, f \in TagIDs : ListTasks(u, {f}, 0, TRUE, FALSE)
    \/ \E u \in Users, name \in TagNames : CreateTag(u, name)
    \/ \E u \in Users, id \in TagIDs : GetTag(u, id)
    \/ \E u \in Users, id \in TagIDs, name \in TagNames : UpdateTag(u, id, name)
    \/ \E u \in Users, id \in TagIDs : DeleteTag(u, id)
    \/ \E u \in Users : ListTags(u, 0)

\* tasks with checklist items
ChecklistHandlers ==
    \/ \E u \in Users : CreateTask(u, "x", "n", <<>>, Absent, <<"c">>, 0)
    \/ \E u \in Users, id \in TaskIDs : GetTask(u, id)
    \/ \E u \in Users, id \in TaskIDs : AddChecklistItem(u, id, "c")
    \/ \E u \in Users, id \in ItemIDs : UpdateChecklistItem(u, id, "d")
    \/ \E u \in Users, id \in ItemIDs : SetChecklistItemCompleted(u, id, TRUE)
    \/ \E u \in Users, id \in ItemIDs : DeleteChecklistItem(u, id)
    \/ \E u \in Users, id \in TaskIDs, order \in SeqsUpTo(ItemIDs, MaxItems) :
          ReorderChecklistItems(u, id, order)

\* what a run has written so far decides the handlers it goes on with (the
\* tasks that get checklist items are those created with notes)
Scope ==
    IF nextTagId > 1 THEN "tags"
    ELSE IF nextItemId > 1 \/ (\E t \in DOMAIN tasks : tasks[t].notes = "n") THEN "checklist"
    ELSE IF nextTaskId > 1 THEN "tasks"
    ELSE "any"

Next ==
    \/ Scope \in {"any", "tasks"} /\ TaskHandlers /\ Within' /\ UNCHANGED <<scen, procs, tokenVars>>
    \/ Scope \in {"any", "tags"} /\ TagHandlers /\ Within' /\ UNCHANGED <<scen, procs, tokenVars>>
    \/ Scope \in {"any", "checklist"} /\ ChecklistHandlers /\ Within'
                                      /\ UNCHANGED <<scen, procs, tokenVars>>

Spec == Init /\ [][Next]_vars

(***************************************************************************)
(* Owner scoping.                                                          *)
(***************************************************************************)
ReadOps == {"GetTask", "ListTasks", "GetTag", "ListTags"}

WriteOps == {"UpdateTask", "DeleteTask", "ArchiveTask", "UnarchiveTask",
             "UpdateTag", "DeleteTag",
             "AddChecklistItem", "UpdateChecklistItem", "SetChecklistItemCompleted",
             "DeleteChecklistItem", "ReorderChecklistItems"}

\* the owner of a stored checklist item is the owner of its task
ItemOwnerIs(i, u) ==
    i \in DOMAIN items /\ items[i].task_id \in DOMAIN tasks
                       /\ tasks[items[i].task_id].owner_id = u

\* everything the last Get/List handed to its caller belongs to that caller
ReturnedOwned ==
    LET u == resp.req.caller
    IN resp.req.op \in ReadOps =>
         /\ \A k \in DOMAIN resp.tasks :
               /\ resp.tasks[k].id \in DOMAIN tasks
               /\ tasks[resp.tasks[k].id].owner_id = u
               /\ \A j \in DOMAIN resp.tasks[k].checklist_items :
                     ItemOwnerIs(resp.tasks[k].checklist_items[j].id, u)
               /\ \A j \in DOMAIN resp.tasks[k].tag_ids :
                     /\ resp.tasks[k].tag_ids[j] \in DOMAIN tags
                     /\ tags[resp.tasks[k].tag_ids[j]].owner_id = u
         /\ \A k \in DOMAIN resp.tags :
               /\ resp.tags[k].id \in DOMAIN tags
               /\ tags[resp.tags[k].id].owner_id = u
         /\ \A k \in DOMAIN resp.items : ItemOwnerIs(resp.items[k].id, u)

\* the step of a write handler leaves every row of the other users as it was
OthersUntouched ==
    LET u == resp'.req.caller
    IN resp'.req.op \in WriteOps =>
         /\ \A t \in DOMAIN tasks : tasks[t].owner_id # u =>
               t \in DOMAIN tasks' /\ tasks'[t] = tasks[t]
         /\ \A g \in DOMAIN tags : tags[g].owner_id # u =>
               g \in DOMAIN tags' /\ tags'[g] = tags[g]
         /\ \A p \in task_tags :
               (p[1] \in DOMAIN tasks /\ tasks[p[1]].owner_id # u) => p \in task_tags'
         /\ \A i \in DOMAIN items : (\E v \in Users \ {u} : ItemOwnerIs(i, v)) =>
               i \in DOMAIN items' /\ items'[i] = items[i]

\* a delete aimed at a row of another user removes no task, tag, association or item
DeleteNothing ==
    LET u == resp'.req.caller
        id == resp'.req.id
    IN /\ (resp'.req.op = "DeleteTask" /\ id \in DOMAIN tasks /\ tasks[id].owner_id # u) =>
             tasks' = tasks /\ task_tags' = task_tags /\ items' = items
       /\ (resp'.req.op = "DeleteTag" /\ id \in DOMAIN tags /\ tags[id].owner_id # u) =>
             tags' = tags /\ task_tags' = task_tags
       /\ (resp'.req.op = "DeleteChecklistItem" /\ \E v \in Users \ {u} : ItemOwnerIs(id, v)) =>
             items' = items

\* C1: whatever Get/List returns to caller u is owned by u, and no Update, Delete,
\* Archive, Unarchive or checklist operation issued by u changes or removes a task,
\* tag, tag association or checklist item of another user; a delete aimed at
\* another owner's id deletes nothing.
C1_OwnerScoping == [][ReturnedOwned' /\ OthersUntouched /\ DeleteNothing]_vars

\* a caller has aimed a delete at another user's task, which is still stored
C1_Witness ==
    /\ resp.req.op = "DeleteTask"
    /\ resp.req.id \in DOMAIN tasks
    /\ tasks[resp.req.id].owner_id # resp.req.caller

(***************************************************************************)
(* Cross-owner reads.                                                      *)
(***************************************************************************)
\* the tables of the run that differs only in that nobody holds this id
WithoutTask(id) == [t \in DOMAIN tasks \ {id} |-> tasks[t]]
WithoutTag(id) == [g \in DOMAIN tags \ {id} |-> tags[g]]

\* the last call was a GetTask / GetTag on an id another user holds
CrossOwnerGetTask ==
    /\ resp.req.op = "GetTask"
    /\ resp.req.id \in DOMAIN tasks
    /\ tasks[resp.req.id].owner_id # resp.req.caller

CrossOwnerGetTag ==
    /\ resp.req.op = "GetTag"
    /\ resp.req.id \in DOMAIN tags
    /\ tags[resp.req.id].owner_id # resp.req.caller

\* C2: a GetTask or GetTag on an id that exists under a different owner answers
\* NotFound, and the whole response equals the one the caller gets when the id
\* does not exist at all.
C2_CrossOwnerNotFound ==
    /\ CrossOwnerGetTask =>
          /\ resp.code = "NotFound"
          /\ resp = GetTaskResp(WithoutTask(resp.req.id),
                                CascadeTaskTags(task_tags, {resp.req.id}),
                                CascadeItems(items, {resp.req.id}),
                                resp.req.caller, resp.req.id)
    /\ CrossOwnerGetTag =>
          /\ resp.code = "NotFound"
          /\ resp = GetTagResp(WithoutTag(resp.req.id), resp.req.caller, resp.req.id)

\* a caller has asked for a task that another user holds and got NotFound
C2_Witness == CrossOwnerGetTask /\ resp.code = "NotFound" /\ resp.tasks = <<>>

(***************************************************************************)
(* SpecChecklist: the handlers that create, list and move checklist items. *)
(***************************************************************************)
MaxListTasks == 2
MaxListItems == 2
MaxSeed == 2

WithinChecklist == nextTaskId <= MaxListTasks + 1 /\ nextItemId <= MaxListItems + 1

\* the stored item ids of a task, whoever asks
ItemsOfTask(it, taskID) == {i \in DOMAIN it : it[i].task_id = taskID}

\* one caller: what another caller can do to these rows is Spec's matter
Caller == "u1"

NextChecklist ==
    \/ \E seed \in SeqsUpTo({"c"}, MaxSeed) :
          /\ CreateTask(Caller, "x", "", <<>>, Absent, seed, 0)
          /\ WithinChecklist'
          /\ UNCHANGED <<scen, procs, tokenVars>>
    \/ \E id \in 1..MaxListTasks :
          /\ AddChecklistItem(Caller, id, "c")
          /\ WithinChecklist'
          /\ UNCHANGED <<scen, procs, tokenVars>>
    \/ \E i \in 1..MaxListItems :
          DeleteChecklistItem(Caller, i) /\ UNCHANGED <<scen, procs, tokenVars>>
    \/ \E id \in 1..MaxListTasks, order \in SeqsUpTo(1..MaxListItems, MaxListItems) :
          /\ Len(order) <= Cardinality(ItemsOfTask(items, id)) + 1
          /\ ReorderChecklistItems(Caller, id, order)
          /\ UNCHANGED <<scen, procs, tokenVars>>
    \/ \E id \in 1..MaxListTasks : GetTask(Caller, id) /\ UNCHANGED <<scen, procs, tokenVars>>

SpecChecklist == Init /\ [][NextChecklist]_vars

(***************************************************************************)
(* Checklist order.                                                        *)
(***************************************************************************)
\* q lists every element of S exactly once
IsPermutationOf(q, S) ==
    /\ Len(q) = Cardinality(S)
    /\ {q[k] : k \in 1..Len(q)} = S

\* this step is a ReorderChecklistItems call on a stored task of the caller
ReorderStep ==
    /\ resp'.req.op = "ReorderChecklistItems"
    /\ resp'.req.id \in DOMAIN tasks
    /\ tasks[resp'.req.id].owner_id = resp'.req.caller

\* the positions of the task's items before and after the step are the same
PositionsKept(taskID) ==
    \A i \in ItemsOfTask(items, taskID) :
        i \in DOMAIN items' /\ items'[i].sort_order = items[i].sort_order

\* C3: a ReorderChecklistItems call whose list is not exactly the task's current
\* item ids (wrong count, missing, foreign or repeated id) fails with the
\* invalid-order error and leaves every stored position of the task unchanged.
C3_InvalidReorderRejected ==
    [][(ReorderStep /\ ~IsPermutationOf(resp'.req.item_ids,
                                        ItemsOfTask(items, resp'.req.id))) =>
          /\ resp'.code = "InvalidArgument"
          /\ resp'.req.item_ids # <<>> => resp'.err = ErrInvalidChecklistOrder
          /\ resp'.items = <<>>
          /\ PositionsKept(resp'.req.id)
          /\ items' = items]_vars

\* a list of the right length with a repeated or foreign id has been refused
C3_Witness ==
    /\ resp.req.op = "ReorderChecklistItems"
    /\ resp.err = ErrInvalidChecklistOrder
    /\ Len(resp.req.item_ids) = Cardinality(ItemsOfTask(items, resp.req.id))
    /\ Len(resp.req.item_ids) >= 2

\* what a successful reorder does with the list it was given
ReorderApplied ==
    LET ids == resp'.req.item_ids
    IN /\ resp'.code = "OK"
       /\ \A k \in 1..Len(ids) :
             ids[k] \in DOMAIN items' /\ items'[ids[k]].sort_order = k - 1
       /\ [k \in 1..Len(resp'.items) |-> resp'.items[k].id] = ids
       /\ \A k \in 1..Len(resp'.items) : resp'.items[k].sort_order = k - 1
       /\ ListChecklistItemIDs(tasks', items', resp'.req.id, resp'.req.caller) = ids
       /\ \A i \in DOMAIN items \ ItemsOfTask(items, resp'.req.id) :
             i \in DOMAIN items' /\ items'[i] = items[i]
       /\ DOMAIN items' = DOMAIN items

\* C4 as stated: every reorder whose list is a permutation of the task's current
\* item ids succeeds and puts the item at list index i at position i, the
\* returned list and later listings being in the supplied order.
C4_AsStated ==
    [][(ReorderStep /\ IsPermutationOf(resp'.req.item_ids,
                                       ItemsOfTask(items, resp'.req.id))) =>
          ReorderApplied]_vars

\* C4: every reorder whose list is a non-empty permutation of the task's current
\* item ids succeeds, assigns position i to the item at list index i in the one
\* step, and the returned list and later listings are in the supplied order.
C4_PermutationReorder ==
    [][(/\ ReorderStep
        /\ resp'.req.item_ids # <<>>
        /\ IsPermutationOf(resp'.req.item_ids, ItemsOfTask(items, resp'.req.id))) =>
          ReorderApplied]_vars

\* a reorder that moved a later item in front of an earlier one has succeeded
C4_Witness ==
    /\ resp.req.op = "ReorderChecklistItems"
    /\ resp.code = "OK"
    /\ Len(resp.req.item_ids) >= 2
    /\ resp.req.item_ids[1] > resp.req.item_ids[2]
    /\ items[resp.req.item_ids[1]].sort_order = 0

\* C5: the positions of every task's checklist items are exactly 0..n-1, each
\* taken once.
C5_ContiguousPositions ==
    \A t \in DOMAIN tasks :
        LET own == ItemsOfTask(items, t)
        IN /\ {items[i].sort_order : i \in own} = 0..(Cardinality(own) - 1)
           /\ \A i, j \in own : items[i].sort_order = items[j].sort_order => i = j

(***************************************************************************)
(* SpecStartDate: create, update and read tasks with every wire form of    *)
(* start_date.                                                             *)
(***************************************************************************)
MaxDateTasks == 1

\* the scenario create(no date), update(d), update(omitted), update(clear):
\* pos counts the calls of it a task has received in a row, 0 once it left it
ScenAfter(sc, r) ==
    IF r.code # "OK" THEN sc
    ELSE IF r.req.op = "CreateTask"
    THEN sc @@ (r.tasks[1].id :>
                  [pos |-> IF r.req.start_date \in {Absent, ""} THEN 1 ELSE 0,
                   date |-> Absent])
    ELSE IF r.req.op = "UpdateTask"
    THEN LET old == sc[r.req.id]
             sd == r.req.start_date
         IN [sc EXCEPT ![r.req.id] =
                IF old.pos = 1 /\ sd \notin {Absent, "", "not-a-date"}
                THEN [pos |-> 2, date |-> sd]
                ELSE IF old.pos = 2 /\ sd = Absent THEN [old EXCEPT !.pos = 3]
                ELSE IF old.pos = 3 /\ sd = "" THEN [old EXCEPT !.pos = 4]
                ELSE [pos |-> 0, date |-> Absent]]
    ELSE sc

\* <<title, notes, tag names>> sent along with the start date
TaskInputs == {<<"x", "", <<>>>>, <<"y", "n", <<>>>>, <<"x", "", <<"a">>>>}

WithinStartDate == nextTaskId <= MaxDateTasks + 1 /\ nextTagId <= MaxTags + 1

NextStartDate ==
    \/ \E in \in TaskInputs, sd \in StartDateWire :
          /\ CreateTask(Caller, in[1], in[2], in[3], sd, <<>>, 0)
          /\ WithinStartDate'
          /\ scen' = ScenAfter(scen, resp')
          /\ UNCHANGED <<procs, tokenVars>>
    \/ \E id \in 1..MaxDateTasks, in \in TaskInputs, sd \in StartDateWire :
          /\ UpdateTask(Caller, id, in[1], in[2], in[3], sd, NoErr)
          /\ WithinStartDate'
          /\ scen' = ScenAfter(scen, resp')
          /\ UNCHANGED <<procs, tokenVars>>
    \/ \E id \in 1..MaxDateTasks :
          GetTask(Caller, id) /\ UNCHANGED <<scen, procs, tokenVars>>

SpecStartDate == Init /\ [][NextStartDate]_vars

(***************************************************************************)
(* Start date.                                                             *)
(***************************************************************************)
\* the wire form of a stored start_date column
WireOf(d) == IF d = NullDate THEN Absent ELSE DateTable[d]

\* the day a well-formed wire date names
DayOf(sd) == CHOOSE d \in Days : DateTable[d] = sd

\* this step is an UpdateTask call on a stored task of the caller
UpdateStep ==
    /\ resp'.req.op = "UpdateTask"
    /\ resp'.req.id \in DOMAIN tasks
    /\ tasks[resp'.req.id].owner_id = resp'.req.caller

\* C6: an UpdateTask that does not supply start_date leaves the stored start
\* date of the task (inbox, or scheduled on any day) as it was, whatever title,
\* notes and tag names it carries, and answers with that same date.
C6_OmittedStartDateKept ==
    [][(UpdateStep /\ resp'.req.start_date = Absent) =>
          /\ \A t \in DOMAIN tasks :
                t \in DOMAIN tasks' /\ tasks'[t].start_date = tasks[t].start_date
          /\ resp'.code # "InvalidArgument"
          /\ resp'.code = "OK" =>
                resp'.tasks[1].start_date = WireOf(tasks[resp'.req.id].start_date)]_vars

\* a scheduled task got a new title, notes and tag through an update without
\* start_date and is still scheduled
C6_Witness ==
    /\ resp.req.op = "UpdateTask"
    /\ resp.req.start_date = Absent
    /\ resp.code = "OK"
    /\ tasks[resp.req.id].start_date # NullDate
    /\ tasks[resp.req.id].title = "y"
    /\ tasks[resp.req.id].notes = "n"

\* the two explicit transitions of an update
StartDateTransitions ==
    LET id == resp'.req.id
        sd == resp'.req.start_date
    IN (UpdateStep /\ sd \notin {Absent, "not-a-date"}) =>
          /\ resp'.code # "InvalidArgument"
          /\ (resp'.code = "OK" /\ sd # "") =>
                /\ tasks'[id].start_date = DayOf(sd)
                /\ resp'.tasks[1].start_date = sd
          /\ (resp'.code = "OK" /\ sd = "") =>
                /\ tasks'[id].start_date = NullDate
                /\ resp'.tasks[1].start_date = Absent

\* where the scenario create(no date), update(d), update(omitted), update(clear)
\* has brought each task: inbox, scheduled(d), scheduled(d), inbox
ScenarioStates ==
    \A t \in DOMAIN scen :
        /\ scen[t].pos \in {1, 4} => tasks[t].start_date = NullDate
        /\ scen[t].pos \in {2, 3} => tasks[t].start_date = DayOf(scen[t].date)

\* C7: from any prior state an update supplying a valid date d schedules the
\* task on d and returns d, an update supplying the empty string moves it to the
\* inbox with no date stored; create(no date), update(d), update(omitted),
\* update(clear) gives inbox, scheduled(d), scheduled(d), inbox.
C7_StartDateStateMachine == [][StartDateTransitions /\ ScenarioStates']_vars

\* a task has been through the whole scenario, on the second day of the calendar
C7_Witness ==
    \E t \in DOMAIN scen :
        scen[t].pos = 4 /\ scen[t].date = DateTable[2] /\ resp.req.start_date = ""

\* C8: a task created without a start date is in the inbox: no date is stored,
\* none is in the response, and none is returned when the task is read.
C8_CreatedWithoutDateIsInbox ==
    [][(resp'.req.op = "CreateTask" /\ resp'.req.start_date = Absent) =>
          /\ resp'.code # "InvalidArgument"
          /\ resp'.code = "OK" =>
                LET id == resp'.tasks[1].id
                IN /\ id \in DOMAIN tasks' \ DOMAIN tasks
                   /\ tasks'[id].start_date = NullDate
                   /\ resp'.tasks[1].start_date = Absent
                   /\ GetTaskResp(tasks', task_tags', items', resp'.req.caller, id)
                         .tasks[1].start_date = Absent]_vars

\* a task with a tag has been created without a start date
C8_Witness ==
    /\ resp.req.op = "CreateTask"
    /\ resp.req.start_date = Absent
    /\ resp.code = "OK"
    /\ resp.tasks[1].tag_ids # <<>>
    /\ tasks[resp.tasks[1].id].start_date = NullDate

(***************************************************************************)
(* SpecKind: the release of the task service whose tasks carry a           *)
(* StartDateKind next to the date (columns start_date_kind, start_date).   *)
(* The application service of that release is modelled from its code; the  *)
(* domain methods it calls and the repository columns follow the domain    *)
(* tests and the design text.                                              *)
(***************************************************************************)
StartDateKindInbox == "inbox"
StartDateKindSpecificDate == "specific_date"
\* what a caller can send as start_date_kind
KindWire == {StartDateKindInbox, StartDateKindSpecificDate, "unknown"}
\* the dates a caller can send: none, or midnight UTC of a calendar day
DateArgs == {NilTime} \cup {ParseDate(DateTable[d]) : d \in Days}

ErrInvalidStartDate == "ErrInvalidStartDate"

\* NewTask of that release: kind inbox, no date
NewTaskWithKind(title, notes, ownerID) ==
    [Title |-> title, Notes |-> notes, OwnerID |-> ownerID,
     StartDateKind |-> StartDateKindInbox, StartDate |-> NilTime]

\* Task.SetStartDate(kind, date): inbox forces the date to nil, any other kind
\* stores what it is given
SetStartDateWithKind(t, kind, date) ==
    [t EXCEPT !.StartDateKind = kind,
              !.StartDate = IF kind = StartDateKindInbox THEN NilTime ELSE date]

\* Task.ValidateStartDate
ValidateStartDate(t) ==
    IF \/ t.StartDateKind = StartDateKindInbox /\ t.StartDate = NilTime
       \/ t.StartDateKind = StartDateKindSpecificDate /\ t.StartDate # NilTime
    THEN NoErr ELSE ErrInvalidStartDate

\* a service that hands the task on without validating it
ApplyStartDateUnvalidated(t, kind, date) ==
    [err |-> NoErr, task |-> SetStartDateWithKind(t, kind, date)]

\* task.SetStartDate(kind, startDate); if err := task.ValidateStartDate() ...
ApplyStartDate(t, kind, date) ==
    LET set == SetStartDateWithKind(t, kind, date)
    IN [err |-> ValidateStartDate(set), task |-> set]

\* the row of a task with the two start-date columns
RowWithKind(t) ==
    [owner_id |-> t.OwnerID, title |-> t.Title, notes |-> t.Notes,
     start_date_kind |-> t.StartDateKind, start_date |-> timeToPgDate(t.StartDate)]

TaskOfRowWithKind(row) ==
    [Title |-> row.title, Notes |-> row.notes, OwnerID |-> row.owner_id,
     StartDateKind |-> row.start_date_kind, StartDate |-> pgDateToTime(row.start_date)]

KindReq(op, u, id, kind, date) ==
    [op |-> op, caller |-> u, id |-> id, start_date_kind |-> kind, start_date |-> date]

\* Service.CreateTask(title, notes, tagNames, startDateKind, startDate)
CreateTaskWithKind(u, title, kind, date) ==
    LET req == KindReq("CreateTask", u, NoTask, kind, date)
        applied == ApplyStartDate(NewTaskWithKind(title, "", u), kind, date)
    IN IF applied.err # NoErr
       THEN /\ resp' = [req |-> req, err |-> applied.err]
            /\ UNCHANGED storeVars
       ELSE /\ tasks' = tasks @@ (nextTaskId :> RowWithKind(applied.task))
            /\ nextTaskId' = nextTaskId + 1
            /\ resp' = [req |-> req, err |-> NoErr]
            /\ UNCHANGED <<tags, nextTagId, task_tags, items, nextItemId>>

\* Service.UpdateTask(id, title, notes, tagNames, startDateKind *string, startDate)
UpdateTaskWithKind(u, id, title, kind, date) ==
    LET req == KindReq("UpdateTask", u, id, kind, date)
    IN IF ~GetTaskFound(tasks, id, u)
       THEN /\ resp' = [req |-> req, err |-> ErrNoRows]
            /\ UNCHANGED storeVars
       ELSE LET loaded == [TaskOfRowWithKind(tasks[id]) EXCEPT !.Title = title]
                applied == IF kind # Absent THEN ApplyStartDate(loaded, kind, date)
                           ELSE [err |-> NoErr, task |-> loaded]
            IN IF applied.err # NoErr
               THEN /\ resp' = [req |-> req, err |-> applied.err]
                    /\ UNCHANGED storeVars
               ELSE /\ tasks' = [tasks EXCEPT ![id] = RowWithKind(applied.task)]
                    /\ resp' = [req |-> req, err |-> NoErr]
                    /\ UNCHANGED <<nextTaskId, tags, nextTagId, task_tags, items, nextItemId>>

NextKind ==
    \/ \E kind \in KindWire, date \in DateArgs :
          /\ CreateTaskWithKind(Caller, "x", kind, date)
          /\ nextTaskId' <= MaxTasks + 1
          /\ UNCHANGED <<scen, procs, tokenVars>>
    \/ \E id \in TaskIDs, title \in Titles, kind \in KindWire \cup {Absent}, date \in DateArgs :
          /\ UpdateTaskWithKind(Caller, id, title, kind, date)
          /\ UNCHANGED <<scen, procs, tokenVars>>

SpecKind == Init /\ [][NextKind]_vars

\* every stored task is inbox without a date or specific_date with one
StoredKindsConsistent ==
    \A t \in DOMAIN tasks :
        \/ tasks[t].start_date_kind = StartDateKindInbox /\ tasks[t].start_date = NullDate
        \/ /\ tasks[t].start_date_kind = StartDateKindSpecificDate
           /\ tasks[t].start_date # NullDate

\* SetStartDate followed by ValidateStartDate, for a date given exactly when the
\* kind is specific_date
SetThenValidateOK ==
    \A kind \in {StartDateKindInbox, StartDateKindSpecificDate}, date \in DateArgs :
        ((date # NilTime) <=> (kind = StartDateKindSpecificDate)) =>
            ValidateStartDate(SetStartDateWithKind(NewTaskWithKind("x", "", Caller),
                                                   kind, date)) = NoErr

\* what a create or update does with the two inconsistent inputs
KindStep ==
    LET kind == resp'.req.start_date_kind
        date == resp'.req.start_date
    IN /\ (kind = StartDateKindSpecificDate /\ date = NilTime) =>
             (resp'.err # NoErr /\ tasks' = tasks)
       /\ (kind = StartDateKindInbox /\ date # NilTime /\ resp'.err = NoErr) =>
             LET id == IF resp'.req.op = "CreateTask" THEN nextTaskId ELSE resp'.req.id
             IN /\ tasks'[id].start_date_kind = StartDateKindInbox
                /\ tasks'[id].start_date = NullDate

\* C9: no stored task is scheduled without a date or inbox with a date; a create
\* or update that sets specific_date with no date fails validation and leaves the
\* stored tasks unchanged; inbox together with a date stores no date; and
\* ValidateStartDate after SetStartDate returns no error for inbox without a date
\* and specific_date with one.
C9_StartDateKindConsistent ==
    [][StoredKindsConsistent' /\ SetThenValidateOK /\ KindStep]_vars

\* a scheduled task has been sent specific_date without a date, and is as before
C9_Witness ==
    /\ resp.req.op = "UpdateTask"
    /\ resp.req.start_date_kind = StartDateKindSpecificDate
    /\ resp.req.start_date = NilTime
    /\ resp.err = ErrInvalidStartDate
    /\ resp.req.id \in DOMAIN tasks
    /\ tasks[resp.req.id].start_date # NullDate

(***************************************************************************)
(* SpecGetOrCreate: requests that resolve a tag name at the same time.     *)
(* Each request runs GetOrCreate as its statements against the shared      *)
(* tags table (lookup, insert, fetch again after a refused insert), and    *)
(* the statements of different requests interleave.                        *)
(***************************************************************************)
Requests == {1, 2}

Running(p) == p \in DOMAIN procs /\ procs[p].pc \notin {"done", "failed"}

\* a request reaches s.tagRepo.GetOrCreate(ctx, tagName, userID)
CallGetOrCreate(p, name, ownerID) ==
    /\ ~Running(p)
    /\ procs' = (p :> [pc |-> "lookup", name |-> name, owner |-> ownerID,
                       id |-> NoTask, err |-> NoErr]) @@ procs
    /\ UNCHANGED <<tags, nextTagId>>

\* lookup by name and owner
LookupTag(p) ==
    /\ Running(p) /\ procs[p].pc = "lookup"
    /\ LET found == TagIDsByName(tags, procs[p].name, procs[p].owner)
       IN procs' = IF found # {}
                   THEN [procs EXCEPT ![p].pc = "done", ![p].id = CHOOSE t \in found : TRUE]
                   ELSE [procs EXCEPT ![p].pc = "insert"]
    /\ UNCHANGED <<tags, nextTagId>>

\* insert when absent; the table's constraint may refuse the row
InsertTag(p) ==
    /\ Running(p) /\ procs[p].pc = "insert"
    /\ IF TagNameTaken(tags, procs[p].name, procs[p].owner, NoTask)
       THEN /\ procs' = [procs EXCEPT ![p].pc = "refetch"]
            /\ UNCHANGED <<tags, nextTagId>>
       ELSE /\ tags' = tags @@ (nextTagId :> [name |-> procs[p].name,
                                               owner_id |-> procs[p].owner])
            /\ nextTagId' = nextTagId + 1
            /\ procs' = [procs EXCEPT ![p].pc = "done", ![p].id = nextTagId]

\* a refused insert: someone else just created it, fetch and return that one
RefetchTag(p) ==
    /\ Running(p) /\ procs[p].pc = "refetch"
    /\ LET found == TagIDsByName(tags, procs[p].name, procs[p].owner)
       IN procs' = IF found # {}
                   THEN [procs EXCEPT ![p].pc = "done", ![p].id = CHOOSE t \in found : TRUE]
                   ELSE [procs EXCEPT ![p].pc = "failed", ![p].err = ErrNoRows]
    /\ UNCHANGED <<tags, nextTagId>>

OtherVars == <<tasks, nextTaskId, task_tags, items, nextItemId, resp, scen, tokenVars>>

NextGetOrCreate ==
    \/ \E p \in Requests, name \in TagNames, u \in Users :
          CallGetOrCreate(p, name, u) /\ UNCHANGED OtherVars
    \/ \E p \in Requests : LookupTag(p) /\ UNCHANGED OtherVars
    \/ \E p \in Requests : InsertTag(p) /\ UNCHANGED OtherVars
    \/ \E p \in Requests : RefetchTag(p) /\ UNCHANGED OtherVars

SpecGetOrCreate == Init /\ [][NextGetOrCreate]_vars

\* both requests have finished a call for the same name and owner
SamePairFinished(p, q) ==
    /\ p \in DOMAIN procs /\ q \in DOMAIN procs /\ p # q
    /\ ~Running(p) /\ ~Running(q)
    /\ procs[p].name = procs[q].name /\ procs[p].owner = procs[q].owner

Converged(p, q) ==
    /\ procs[p].pc = "done" /\ procs[q].pc = "done"
    /\ procs[p].id = procs[q].id
    /\ Cardinality(TagIDsByName(tags, procs[p].name, procs[p].owner)) = 1

\* C10: two getOrCreate calls for the same name and owner, in any interleaving,
\* both succeed, both return the same tag id, and exactly one tag row with that
\* name and owner exists afterwards; no refused insert reaches the caller.
C10_ConcurrentGetOrCreate ==
    \A p \in Requests, q \in Requests : SamePairFinished(p, q) => Converged(p, q)

\* the same for a name that no tag of another owner carries
GetOrCreateConvergesOnFreeName ==
    \A p \in Requests, q \in Requests :
        (/\ SamePairFinished(p, q)
         /\ ~\E t \in DOMAIN tags : /\ tags[t].name = procs[p].name
                                    /\ tags[t].owner_id # procs[p].owner)
        => Converged(p, q)

(***************************************************************************)
(* Orphan tags.                                                            *)
(***************************************************************************)
\* the tag is named by an association of a task that is stored
Referenced(tk, tt, t) == \E p \in tt : p[2] = t /\ p[1] \in DOMAIN tk

CleanupStep ==
    /\ resp'.req.op \in {"DeleteTask", "UpdateTask"}
    /\ resp'.code = "OK"

\* C11: after the orphan cleanup that follows a task delete or update, no tag of
\* the caller without a referencing task remains, every tag that a task still
\* references is as it was, and every tag of another owner is as it was.
C11_OrphanCleanup ==
    [][CleanupStep =>
         LET u == resp'.req.caller
         IN /\ \A t \in DOMAIN tags' :
                  tags'[t].owner_id = u => Referenced(tasks', task_tags', t)
            /\ \A t \in DOMAIN tags :
                  (Referenced(tasks', task_tags', t) \/ tags[t].owner_id # u)
                      => (t \in DOMAIN tags' /\ tags'[t] = tags[t])]_vars

\* a delete has removed the last referencer of a tag: the tag is gone, another
\* owner's tag is still there
C11_Witness ==
    /\ resp.req.op = "DeleteTask" /\ resp.code = "OK"
    /\ resp.req.id \notin DOMAIN tasks /\ resp.req.id < nextTaskId
    /\ \E t \in 1..(nextTagId - 1) : t \notin DOMAIN tags
    /\ \E t \in DOMAIN tags : tags[t].owner_id # resp.req.caller

(***************************************************************************)
(* SpecCleanup: task operations whose orphan cleanup may fail.  scen keeps *)
(* the last request's inputs that the response does not repeat: the error  *)
(* of the cleanup, the title and the tag names.                            *)
(***************************************************************************)
CleanupErrs == {NoErr, ErrStore}

TagNameLists == {<<>>, <<"a">>, <<"b">>}

MaxCleanupTasks == 1

WithinCleanup == nextTaskId <= MaxCleanupTasks + 1 /\ nextTagId <= MaxTags + 1

NextCleanup ==
    \/ \E u \in Users, names \in TagNameLists :
          /\ CreateTask(u, "x", "", names, Absent, <<>>, 0)
          /\ WithinCleanup'
          /\ scen' = <<NoErr, "x", names>>
          /\ UNCHANGED <<procs, tokenVars>>
    \/ \E u \in Users, id \in 1..MaxCleanupTasks, names \in TagNameLists, ce \in CleanupErrs :
          /\ UpdateTask(u, id, "y", "", names, Absent, ce)
          /\ WithinCleanup'
          /\ scen' = <<ce, "y", names>>
          /\ UNCHANGED <<procs, tokenVars>>
    \/ \E u \in Users, id \in 1..MaxCleanupTasks, ce \in CleanupErrs :
          /\ DeleteTask(u, id, ce)
          /\ scen' = <<ce, "", <<>>>>
          /\ UNCHANGED <<procs, tokenVars>>
    \/ \E u \in Users, id \in 1..MaxCleanupTasks :
          /\ GetTask(u, id)
          /\ scen' = <<NoErr, "", <<>>>>
          /\ UNCHANGED <<procs, tokenVars>>

SpecCleanup == Init /\ [][NextCleanup]_vars

\* the delete of the caller's task went through: the row and its associations
\* are gone and the caller is told so
DeleteDone ==
    LET u == resp'.req.caller
        id == resp'.req.id
    IN (resp'.req.op = "DeleteTask" /\ GetTaskFound(tasks, id, u)) =>
          /\ resp'.code = "OK"
          /\ id \notin DOMAIN tasks'
          /\ \A p \in task_tags' : p[1] # id

\* the update of the caller's task went through (the task was found and every
\* tag name resolved): the row and the associations are the new ones and the
\* caller is told so
UpdateDone ==
    LET u == resp'.req.caller
        id == resp'.req.id
        st == ResolveTagNames(scen'[3], u,
                  [tags |-> tags, next |-> nextTagId, ids |-> <<>>, err |-> NoErr])
    IN (resp'.req.op = "UpdateTask" /\ GetTaskFound(tasks, id, u) /\ st.err = NoErr) =>
          /\ resp'.code = "OK"
          /\ tasks'[id].title = scen'[2]
          /\ {p[2] : p \in {q \in task_tags' : q[1] = id}} = Range(st.ids)

\* C12: an UpdateTask or DeleteTask whose task mutation succeeded returns success
\* with the mutation stored, whether the orphan cleanup after it succeeds or
\* fails.
C12_CleanupFailureSwallowed == [][DeleteDone /\ UpdateDone]_vars

\* a delete whose cleanup failed: answered OK, the task gone, the caller's tag
\* that lost its last referencer still stored
C12_Witness ==
    /\ resp.req.op = "DeleteTask" /\ resp.code = "OK"
    /\ scen # <<>> /\ scen[1] = ErrStore
    /\ resp.req.id \notin DOMAIN tasks /\ resp.req.id < nextTaskId
    /\ \E t \in DOMAIN tags : /\ tags[t].owner_id = resp.req.caller
                              /\ ~Referenced(tasks, task_tags, t)

(***************************************************************************)
(* SpecCreate: creations whose repository statements may fail part-way.    *)
(* scen keeps the tag names of the last create.                            *)
(***************************************************************************)
CreateTagLists == {<<>>, <<"a">>, <<"a", "b">>}

NextCreate ==
    \/ \E u \in Users, names \in CreateTagLists : \E failAt \in 0..Len(names) :
          /\ CreateTask(u, "x", "", names, Absent, <<>>, failAt)
          /\ Within'
          /\ scen' = <<names>>
          /\ UNCHANGED <<procs, tokenVars>>
    \/ \E u \in Users, id \in TaskIDs :
          /\ GetTask(u, id)
          /\ UNCHANGED <<scen, procs, tokenVars>>
    \/ \E u \in Users, id \in TaskIDs :
          /\ DeleteTask(u, id, NoErr)
          /\ UNCHANGED <<scen, procs, tokenVars>>

SpecCreate == Init /\ [][NextCreate]_vars

\* C13: CreateTask is all-or-nothing: a call that returns an error leaves no
\* task row behind, and no created task has only some of its requested tags
\* attached.
C13_CreateAllOrNothing ==
    [][resp'.req.op = "CreateTask" =>
          /\ resp'.code # "OK" => DOMAIN tasks' = DOMAIN tasks
          /\ nextTaskId' # nextTaskId =>
                \A k \in 1..Len(scen'[1]) :
                    \E p \in task_tags' : /\ p[1] = nextTaskId
                                          /\ tags'[p[2]].name = scen'[1][k]]_vars

(***************************************************************************)
(* SpecSeed: tasks created with a checklist seed.  scen keeps the seed of  *)
(* the last create.                                                        *)
(***************************************************************************)
NextSeed ==
    \/ \E seed \in SeqsUpTo(Contents, MaxSeed) :
          /\ CreateTask(Caller, "x", "", <<>>, Absent, seed, 0)
          /\ nextTaskId' <= MaxListTasks + 1
          /\ scen' = <<seed>>
          /\ UNCHANGED <<procs, tokenVars>>
    \/ \E id \in 1..MaxListTasks :
          /\ GetTask(Caller, id)
          /\ UNCHANGED <<scen, procs, tokenVars>>
    \/ \E id \in 1..MaxListTasks :
          /\ DeleteTask(Caller, id, NoErr)
          /\ UNCHANGED <<scen, procs, tokenVars>>

SpecSeed == Init /\ [][NextSeed]_vars

\* the checklist GetTask returns for the task the last create has made
SeededChecklist ==
    GetTaskResp(tasks, task_tags, items, resp.req.caller, nextTaskId - 1).tasks[1].checklist_items

\* C14: after a successful CreateTask with seed c0..c(n-1), GetTask returns
\* exactly n items, with the contents c0..c(n-1) in argument order, the
\* positions 0..n-1, none completed.
C14_SeededChecklist ==
    (resp.req.op = "CreateTask" /\ resp.code = "OK") =>
        LET seed == scen[1]
            got == SeededChecklist
        IN /\ Len(got) = Len(seed)
           /\ \A k \in 1..Len(seed) : /\ got[k].content = seed[k]
                                      /\ got[k].sort_order = k - 1
                                      /\ got[k].completed = FALSE

(***************************************************************************)
(* SpecTagSet: creates and updates that name tags, a name possibly twice.  *)
(* scen keeps the tag names of the last request.                           *)
(***************************************************************************)
MaxNames == 2

NextTagSet ==
    \/ \E names \in SeqsUpTo(TagNames, MaxNames) :
          /\ CreateTask(Caller, "x", "", names, Absent, <<>>, 0)
          /\ Within'
          /\ scen' = <<names>>
          /\ UNCHANGED <<procs, tokenVars>>
    \/ \E id \in TaskIDs, names \in SeqsUpTo(TagNames, MaxNames) :
          /\ UpdateTask(Caller, id, "x", "", names, Absent, NoErr)
          /\ Within'
          /\ scen' = <<names>>
          /\ UNCHANGED <<procs, tokenVars>>
    \/ \E id \in TaskIDs :
          /\ GetTask(Caller, id)
          /\ UNCHANGED <<scen, procs, tokenVars>>

SpecTagSet == Init /\ [][NextTagSet]_vars

\* a create or update with tag names has just been answered OK
TagSetStep == resp.req.op \in {"CreateTask", "UpdateTask"} /\ resp.code = "OK"

\* the task the last create or update was about
LastTask == IF resp.req.op = "CreateTask" THEN nextTaskId - 1 ELSE resp.req.id

\* the caller's tags that carry one of the names
ResolvedTags(names) ==
    {t \in DOMAIN tags : tags[t].owner_id = resp.req.caller /\ tags[t].name \in Range(names)}

StoredTagSet(id) == {p[2] : p \in {q \in task_tags : q[1] = id}}

\* the stored associations and the ids in the response are the resolved tags
TagSetReplaced ==
    TagSetStep =>
        /\ Cardinality(ResolvedTags(scen[1])) = Cardinality(Range(scen[1]))
        /\ StoredTagSet(LastTask) = ResolvedTags(scen[1])
        /\ Range(resp.tasks[1].tag_ids) = ResolvedTags(scen[1])

\* C15: after a successful CreateTask or UpdateTask with tag names N the task's
\* tag set, stored and as returned, is exactly the set of tags resolved for N
\* (what was attached before and is not named is detached), and it holds no id
\* twice even when N repeats a name.
C15_TagSetExact ==
    /\ TagSetReplaced
    /\ TagSetStep =>
          Len(resp.tasks[1].tag_ids) = Cardinality(Range(resp.tasks[1].tag_ids))

(***************************************************************************)
(* pkg/auth: JWT validation.  A token string is described by what          *)
(* jwt.ParseWithClaims reads in it: whether it decodes at all, the alg and  *)
(* kid of its header, the private key that made its signature, and its     *)
(* claims; and by what uuid.Parse reads in it.  Times are ticks of the      *)
(* clock.                                                                  *)
(***************************************************************************)
MaxClock == 3
Times == 1..MaxClock

ErrInvalidToken == "invalid token"
ErrInvalidTokenType == "token type must be 'access'"
ErrInvalidIssuer == "invalid token issuer"
ErrTokenExpired == "token has expired"
ErrNoUserID == "no user ID found in token claims"

\* v.expectedIssuer
ExpectedIssuer == "https://identra.example.com"
Issuers == {ExpectedIssuer, "https://evil.com"}

\* v.keys: kid -> public key, named after the private key it verifies
JWKS == [kid1 |-> "keyA"]
NoKid == "<no kid>"
Kids == {"kid1", "kid9", NoKid}
SigningKeys == {"keyA", "keyB"}
NoKey == "<no key>"

\* jwt.SigningMethodRSA
SigningMethodRSA == {"RS256"}
Algs == {"RS256", "HS256"}

TokenTypes == {"access", "refresh", ""}

\* Claims; ExpiresAt is NilTime when the token carries no exp
ClaimsSet ==
    [Type : TokenTypes, Issuer : Issuers, ExpiresAt : {NilTime} \cup Times,
     UserID : {"", "u1"}, Subject : {"", "u2"}]

NoClaims == [Type |-> "", Issuer |-> "", ExpiresAt |-> NilTime, UserID |-> "", Subject |-> ""]

\* what uuid.Parse makes of a string that is no uuid
NotUUID == "<not a uuid>"

\* a string that does not decode
MalformedJWT ==
    [wellFormed |-> FALSE, alg |-> "", kid |-> NoKid, signedBy |-> NoKey, claims |-> NoClaims,
     uuid |-> NotUUID]

\* the token strings: the one that does not decode, and every header and
\* signature around every claim set that names a subject
JWTs ==
    {MalformedJWT} \cup
    [wellFormed : {TRUE}, alg : Algs, kid : Kids, signedBy : SigningKeys,
     claims : {c \in ClaimsSet : c.Subject # ""}, uuid : {NotUUID}]

\* the token the issuer signs with its key "keyA", announced as "kid1"
SignedJWT(claims) ==
    [wellFormed |-> TRUE, alg |-> "RS256", kid |-> "kid1", signedBy |-> "keyA", claims |-> claims,
     uuid |-> NotUUID]

\* the key function ValidateToken hands to the parser: <<public key, err>>
Keyfunc(token) ==
    IF token.alg \notin SigningMethodRSA THEN <<NoKey, "unexpected signing method">>
    ELSE IF token.kid = NoKid THEN <<NoKey, "missing kid in token header">>
    ELSE IF token.kid \notin DOMAIN JWKS THEN <<NoKey, "unknown kid">>
    ELSE <<JWKS[token.kid], NoErr>>

\* jwt.ParseWithClaims at time now: decode, ask the key function, verify the
\* signature, then validate the registered claims (exp, when present, must be
\* after now): <<claims, err>>
ParseWithClaims(tokenString, now) ==
    IF ~tokenString.wellFormed THEN <<NoClaims, "token is malformed">>
    ELSE IF Keyfunc(tokenString)[2] # NoErr THEN <<NoClaims, Keyfunc(tokenString)[2]>>
    ELSE IF tokenString.signedBy # Keyfunc(tokenString)[1] THEN <<NoClaims, "signature is invalid">>
    ELSE IF tokenString.claims.ExpiresAt # NilTime /\ ~(now < tokenString.claims.ExpiresAt)
         THEN <<NoClaims, "token is expired">>
    ELSE <<tokenString.claims, NoErr>>

\* a validation that accepts any issuer
ValidateTokenAnyIssuer(tokenString, now) ==
    LET parsed == ParseWithClaims(tokenString, now)
        claims == parsed[1]
    IN IF parsed[2] # NoErr THEN <<NoClaims, ErrInvalidToken>>
       ELSE IF claims.Type # "access" THEN <<NoClaims, ErrInvalidTokenType>>
       ELSE IF claims.ExpiresAt # NilTime /\ claims.ExpiresAt < now
            THEN <<NoClaims, ErrTokenExpired>>
       ELSE <<claims, NoErr>>

\* JWTValidator.ValidateToken at time now: <<claims, err>>
ValidateToken(tokenString, now) ==
    LET parsed == ParseWithClaims(tokenString, now)
        claims == parsed[1]
    IN IF parsed[2] # NoErr THEN <<NoClaims, ErrInvalidToken>>
       ELSE IF claims.Type # "access" THEN <<NoClaims, ErrInvalidTokenType>>
       ELSE IF claims.Issuer # ExpectedIssuer THEN <<NoClaims, ErrInvalidIssuer>>
       ELSE IF claims.ExpiresAt # NilTime /\ claims.ExpiresAt < now
            THEN <<NoClaims, ErrTokenExpired>>
       ELSE <<claims, NoErr>>

\* an extraction that prefers the subject
ExtractUserIDSubjectFirst(claims) ==
    IF claims.Subject # "" THEN <<claims.Subject, NoErr>>
    ELSE IF claims.UserID # "" THEN <<claims.UserID, NoErr>>
    ELSE <<"", ErrNoUserID>>

\* ExtractUserID: <<user id, err>>
ExtractUserID(claims) ==
    IF claims.UserID # "" THEN <<claims.UserID, NoErr>>
    ELSE IF claims.Subject # "" THEN <<claims.Subject, NoErr>>
    ELSE <<"", ErrNoUserID>>

(***************************************************************************)
(* SpecJWT: the validator and the extraction called on every token and     *)
(* every claim set while the clock runs.                                   *)
(***************************************************************************)
JWTResp(op, tokenString, now, claims, userID, err) ==
    [req |-> [op |-> op, token |-> tokenString, now |-> now],
     claims |-> claims, userID |-> userID, err |-> err]

CallValidateToken(tokenString) ==
    /\ resp' = JWTResp("ValidateToken", tokenString, clock,
                       ValidateToken(tokenString, clock)[1], "",
                       ValidateToken(tokenString, clock)[2])
    /\ UNCHANGED <<storeVars, scen, procs, tokenVars>>

CallExtractUserID(claims) ==
    /\ resp' = JWTResp("ExtractUserID", SignedJWT(claims), clock,
                       claims, ExtractUserID(claims)[1], ExtractUserID(claims)[2])
    /\ UNCHANGED <<storeVars, scen, procs, tokenVars>>

\* time passes
Tick ==
    /\ clock < MaxClock
    /\ clock' = clock + 1
    /\ UNCHANGED <<storeVars, resp, scen, procs, mcp_tokens, nextTokenId, touches>>

NextJWT ==
    \/ \E tokenString \in JWTs : CallValidateToken(tokenString)
    \/ \E claims \in ClaimsSet : CallExtractUserID(claims)
    \/ Tick

SpecJWT == Init /\ [][NextJWT]_vars

\* the four checks of a token at the time of the call
SignatureVerifies(t) ==
    t.wellFormed /\ t.alg \in SigningMethodRSA /\ t.kid \in DOMAIN JWKS /\ t.signedBy = JWKS[t.kid]

TypeIsAccess(t) == t.claims.Type = "access"

IssuerMatches(t) == t.claims.Issuer = ExpectedIssuer

NotExpired(t, now) == t.claims.ExpiresAt = NilTime \/ t.claims.ExpiresAt > now

ValidateAnswered == resp.req.op = "ValidateToken"

\* C18: ValidateToken returns the token's claims if and only if the signature
\* verifies against the known key named by the kid, the type is "access", the
\* issuer is the configured one and the expiration, if present, is in the
\* future; a token that fails only the type check gets the invalid-token-type
\* error, one that fails only the issuer check the invalid-issuer error.
C18_ValidateTokenChecks ==
    ValidateAnswered =>
        LET t == resp.req.token
            now == resp.req.now
            all == /\ SignatureVerifies(t)
                   /\ TypeIsAccess(t)
                   /\ IssuerMatches(t)
                   /\ NotExpired(t, now)
        IN /\ (resp.err = NoErr) <=> all
           /\ all => resp.claims = t.claims
           /\ ~all => resp.claims = NoClaims
           /\ (SignatureVerifies(t) /\ NotExpired(t, now) /\ ~TypeIsAccess(t))
                 => resp.err = ErrInvalidTokenType
           /\ (SignatureVerifies(t) /\ NotExpired(t, now) /\ TypeIsAccess(t) /\ ~IssuerMatches(t))
                 => resp.err = ErrInvalidIssuer

\* a token whose only flaw is its issuer has been rejected, late in the run
C18_Witness ==
    /\ ValidateAnswered
    /\ resp.req.now > 1
    /\ SignatureVerifies(resp.req.token)
    /\ TypeIsAccess(resp.req.token)
    /\ NotExpired(resp.req.token, resp.req.now)
    /\ resp.req.token.claims.ExpiresAt # NilTime
    /\ ~IssuerMatches(resp.req.token)
    /\ resp.err = ErrInvalidIssuer

ExtractAnswered == resp.req.op = "ExtractUserID"

MaxTokens == 1
TokenUUIDs == <<"uuid-1", "uuid-2", "uuid-3", "uuid-4">>
NoToken == 0

ErrUnauthorized == "unauthorized: user mismatch"
ErrTokenInactive == "token is inactive"
ErrTokenIsExpired == "token is expired"

\* CreateMCPToken :one, is_active by its column default
CreateMCPToken(tk, id, token, userID, expiresAt) ==
    tk @@ (id :> [token |-> token, user_id |-> userID, expires_at |-> expiresAt,
                  last_used_at |-> NilTime, is_active |-> TRUE])

\* GetMCPTokenByToken :one: <<id, err>>
GetMCPTokenByToken(tk, token) ==
    IF \E i \in DOMAIN tk : tk[i].token = token
    THEN <<CHOOSE i \in DOMAIN tk : tk[i].token = token, NoErr>>
    ELSE <<NoToken, ErrNoRows>>

\* GetMCPTokenByID :one: <<id, err>>
GetMCPTokenByID(tk, id) == IF id \in DOMAIN tk THEN <<id, NoErr>> ELSE <<NoToken, ErrNoRows>>

\* UpdateMCPTokenLastUsedAt :exec
UpdateMCPTokenLastUsedAt(tk, id, now) ==
    [i \in DOMAIN tk |-> IF i = id THEN [tk[i] EXCEPT !.last_used_at = now] ELSE tk[i]]

\* a revocation that changes no row
RevokeMCPTokenNoRow(tk, id) == tk

\* RevokeMCPToken :exec
RevokeMCPToken(tk, id) ==
    [i \in DOMAIN tk |-> IF i = id THEN [tk[i] EXCEPT !.is_active = FALSE] ELSE tk[i]]

\* DeleteMCPToken :exec
DeleteMCPToken(tk, id) == [i \in DOMAIN tk \ {id} |-> tk[i]]

\* an expiry that already holds at the instant of expires_at
IsExpiredAtExpiry(t, now) == t.expires_at # NilTime /\ now >= t.expires_at

\* MCPToken.IsExpired at time now
IsExpired(t, now) == t.expires_at # NilTime /\ now > t.expires_at

\* a validity that does not look at is_active
IsValidWhenRevoked(t, now) == ~IsExpired(t, now)

\* MCPToken.IsValid at time now
IsValid(t, now) == t.is_active /\ ~IsExpired(t, now)

\* Service.ValidateToken at time now: <<user id, err, id of the row whose
\* last_used_at the detached update will set>>
ServiceValidateToken(tk, tokenValue, now) ==
    LET got == GetMCPTokenByToken(tk, tokenValue)
        token == tk[got[1]]
    IN IF got[2] # NoErr THEN <<"", got[2], NoToken>>
       ELSE IF ~IsValid(token, now) /\ ~token.is_active THEN <<"", ErrTokenInactive, NoToken>>
       ELSE IF ~IsValid(token, now) /\ IsExpired(token, now) THEN <<"", ErrTokenIsExpired, NoToken>>
       ELSE <<token.user_id, NoErr, got[1]>>

TokenReq(op, caller, id, token, now) ==
    [op |-> op, caller |-> caller, id |-> id, token |-> token, now |-> now]

TokenResp(req, err, userID) == [req |-> req, err |-> err, userID |-> userID]

\* MCPTokenServer.toProto: the message carries no user_id
toProto(tk, id) ==
    [id |-> id, token |-> tk[id].token, expires_at |-> tk[id].expires_at,
     last_used_at |-> tk[id].last_used_at, is_active |-> tk[id].is_active]

\* the answer of an MCPTokenServer method: the service's error, the status
\* ToGRPCError makes of it and the token messages of the response
ServerResp(req, err, defaultMsg, tokenList) ==
    [req |-> req, err |-> err, userID |-> req.caller,
     code |-> ToGRPCError(err, defaultMsg)[1], msg |-> ToGRPCError(err, defaultMsg)[2],
     tokens |-> tokenList]

\* an ownership test that lets every caller pass
OwnedByAnyone(token, userID) == TRUE

\* token.UserID != userID, negated
OwnedBy(token, userID) == token.user_id = userID

\* ListMCPTokensByUserID :many, ORDER BY created_at DESC: ids of the owner's
\* rows, the newest first
ListMCPTokensByUserID(tk, userID) ==
    Reverse(SortIDs(SetToSeq({i \in DOMAIN tk : tk[i].user_id = userID})))

\* MCPTokenServer.CreateMCPToken over Service.CreateToken
CreateToken(u, expiresAt) ==
    /\ nextTokenId <= MaxTokens
    /\ mcp_tokens' = CreateMCPToken(mcp_tokens, nextTokenId, TokenUUIDs[nextTokenId], u, expiresAt)
    /\ nextTokenId' = nextTokenId + 1
    /\ resp' = ServerResp(TokenReq("CreateToken", u, nextTokenId, TokenUUIDs[nextTokenId], clock),
                          NoErr, "failed to create MCP token",
                          <<toProto(mcp_tokens', nextTokenId)>>)
    /\ UNCHANGED <<storeVars, procs, clock, touches>>

\* MCPTokenServer.GetMCPToken over Service.GetToken
GetToken(u, id) ==
    LET req == TokenReq("GetToken", u, id, NotUUID, clock)
        got == GetMCPTokenByID(mcp_tokens, id)
        msg == "failed to get MCP token"
    IN /\ resp' = IF got[2] # NoErr THEN ServerResp(req, got[2], msg, <<>>)
                  ELSE IF ~OwnedBy(mcp_tokens[id], u)
                  THEN ServerResp(req, ErrUnauthorized, msg, <<>>)
                  ELSE ServerResp(req, NoErr, msg, <<toProto(mcp_tokens, id)>>)
       /\ UNCHANGED <<storeVars, procs, tokenVars>>

\* MCPTokenServer.ListMCPTokens over Service.ListTokens
ListTokens(u) ==
    LET ids == ListMCPTokensByUserID(mcp_tokens, u)
    IN /\ resp' = ServerResp(TokenReq("ListTokens", u, NoToken, NotUUID, clock), NoErr,
                             "failed to list MCP tokens",
                             [k \in 1..Len(ids) |-> toProto(mcp_tokens, ids[k])])
       /\ UNCHANGED <<storeVars, procs, tokenVars>>

\* MCPTokenServer.RevokeMCPToken over Service.RevokeToken
RevokeToken(u, id) ==
    LET req == TokenReq("RevokeToken", u, id, NotUUID, clock)
        got == GetMCPTokenByID(mcp_tokens, id)
        msg == "failed to revoke MCP token"
    IN /\ IF got[2] # NoErr
          THEN /\ resp' = ServerResp(req, got[2], msg, <<>>)
               /\ UNCHANGED mcp_tokens
          ELSE IF ~OwnedBy(mcp_tokens[id], u)
          THEN /\ resp' = ServerResp(req, ErrUnauthorized, msg, <<>>)
               /\ UNCHANGED mcp_tokens
          ELSE /\ mcp_tokens' = RevokeMCPToken(mcp_tokens, id)
               /\ resp' = ServerResp(req, NoErr, msg, <<>>)
       /\ UNCHANGED <<storeVars, procs, nextTokenId, clock, touches>>

\* MCPTokenServer.DeleteMCPToken over Service.DeleteToken
DeleteToken(u, id) ==
    LET req == TokenReq("DeleteToken", u, id, NotUUID, clock)
        got == GetMCPTokenByID(mcp_tokens, id)
        msg == "failed to delete MCP token"
    IN /\ IF got[2] # NoErr
          THEN /\ resp' = ServerResp(req, got[2], msg, <<>>)
               /\ UNCHANGED mcp_tokens
          ELSE IF ~OwnedBy(mcp_tokens[id], u)
          THEN /\ resp' = ServerResp(req, ErrUnauthorized, msg, <<>>)
               /\ UNCHANGED mcp_tokens
          ELSE /\ mcp_tokens' = DeleteMCPToken(mcp_tokens, id)
               /\ resp' = ServerResp(req, NoErr, msg, <<>>)
       /\ UNCHANGED <<storeVars, procs, nextTokenId, clock, touches>>

\* the detached updates a run holds at one time
MaxPending == 2

\* a validation that starts the update whatever it found
ScheduleAlways(pending, err, id) == pending (+) SetToBag({id})

\* go func() { s.repo.UpdateLastUsedAt(...) }(), reached only past the
\* error returns
Schedule(pending, err, id) == IF err = NoErr THEN pending (+) SetToBag({id}) ELSE pending

\* Service.ValidateToken, up to the start of its detached update
CallServiceValidateToken(tokenValue) ==
    LET r == ServiceValidateToken(mcp_tokens, tokenValue, clock)
    IN /\ resp' = TokenResp(TokenReq("ValidateToken", "", NoToken, tokenValue, clock), r[2], r[1])
       /\ touches' = Schedule(touches, r[2], r[3])
       /\ BagCardinality(touches') <= MaxPending
       /\ UNCHANGED <<storeVars, procs, mcp_tokens, nextTokenId, clock>>

\* the detached s.repo.UpdateLastUsedAt of an earlier ValidateToken; its
\* error err is logged
UpdateLastUsedAt(id, err) ==
    /\ BagIn(id, touches)
    /\ mcp_tokens' = IF err = NoErr THEN UpdateMCPTokenLastUsedAt(mcp_tokens, id, clock)
                     ELSE mcp_tokens
    /\ touches' = touches (-) SetToBag({id})
    /\ UNCHANGED <<storeVars, resp, procs, nextTokenId, clock>>

(***************************************************************************)
(* SpecToken: the token service called by two users while the clock runs   *)
(* and the detached updates of last_used_at land at any later moment.      *)
(* scen lists the ids whose RevokeToken has returned success.              *)
(***************************************************************************)
TokenIDs == 1..(MaxTokens + 1)

NextToken ==
    \/ \E u \in Users, expiresAt \in {NilTime} \cup Times :
          CreateToken(u, expiresAt) /\ UNCHANGED scen
    \/ \E u \in Users, id \in TokenIDs :
          /\ RevokeToken(u, id)
          /\ scen' = IF resp'.err = NoErr /\ id \notin Range(scen) THEN Append(scen, id) ELSE scen
    \/ \E u \in Users, id \in TokenIDs :
          DeleteToken(u, id) /\ UNCHANGED scen
    \/ \E u \in Users, id \in TokenIDs :
          GetToken(u, id) /\ UNCHANGED scen
    \/ \E u \in Users :
          ListTokens(u) /\ UNCHANGED scen
    \/ \E id \in TokenIDs :
          CallServiceValidateToken(TokenUUIDs[id]) /\ UNCHANGED scen
    \/ \E id \in TokenIDs, err \in {NoErr, ErrStore} :
          UpdateLastUsedAt(id, err) /\ UNCHANGED scen
    \/ Tick

SpecToken == Init /\ [][NextToken]_vars

\* the token value belongs to a token whose revocation has succeeded
Revoked(tokenValue) == \E id \in Range(scen) : TokenUUIDs[id] = tokenValue

\* C20: after RevokeToken(id) by the owner has returned success, every later
\* ValidateToken of that token fails, with "token is inactive" while the row
\* exists, whatever the time and the expiry; and nothing makes the stored
\* token valid again.
C20_RevokedStaysInvalid ==
    /\ (resp.req.op = "ValidateToken" /\ Revoked(resp.req.token)) =>
          /\ resp.err # NoErr
          /\ resp.userID = ""
          /\ (\E i \in DOMAIN mcp_tokens : mcp_tokens[i].token = resp.req.token)
                => resp.err = ErrTokenInactive
    /\ \A id \in Range(scen) :
          id \in DOMAIN mcp_tokens =>
              /\ ~mcp_tokens[id].is_active
              /\ ServiceValidateToken(mcp_tokens, mcp_tokens[id].token, clock)[2] = ErrTokenInactive

\* a revoked token that has not expired was validated at a later time, after
\* an earlier validation's update of last_used_at had landed, and was refused
C20_Witness ==
    /\ resp.req.op = "ValidateToken"
    /\ Revoked(resp.req.token)
    /\ resp.err = ErrTokenInactive
    /\ clock > 1
    /\ \E i \in DOMAIN mcp_tokens :
          /\ mcp_tokens[i].token = resp.req.token
          /\ mcp_tokens[i].expires_at > clock
          /\ mcp_tokens[i].last_used_at # NilTime

(***************************************************************************)
(* pkg/auth: the interceptor for both schemes.  An authorization header    *)
(* value is the text before its first space (scheme), whether a space       *)
(* follows (sep), and the text after it (rest).                            *)
(***************************************************************************)
Schemes == {"Bearer", "bearer", "MCP-Token", "Basic", ""}

\* the header value ""
EmptyHeader == [scheme |-> "", sep |-> FALSE, rest |-> MalformedJWT]

\* the string form of a uuid
UUIDString(u) == [MalformedJWT EXCEPT !.uuid = u]

ValidClaims(userID, subject) ==
    [Type |-> "access", Issuer |-> ExpectedIssuer, ExpiresAt |-> NilTime,
     UserID |-> userID, Subject |-> subject]

\* the credentials a client presents: tokens of the issuer with one, both or
\* no identity claim, a refresh token, a token that expires, a token signed
\* with another key, uuids of stored and of unknown tokens, and junk
Credentials ==
    {SignedJWT(ValidClaims("u1", "")), SignedJWT(ValidClaims("", "u2")),
     SignedJWT(ValidClaims("u1", "u2")), SignedJWT(ValidClaims("", "")),
     SignedJWT([ValidClaims("u1", "") EXCEPT !.Type = "refresh"]),
     SignedJWT([ValidClaims("u1", "") EXCEPT !.ExpiresAt = 2]),
     [SignedJWT(ValidClaims("u1", "")) EXCEPT !.signedBy = "keyB"],
     MalformedJWT}
    \cup {UUIDString(TokenUUIDs[k]) : k \in 1..(MaxTokens + 1)}

Headers ==
    {[scheme |-> s, sep |-> FALSE, rest |-> MalformedJWT] : s \in Schemes}
    \cup [scheme : Schemes, sep : {TRUE}, rest : Credentials]

\* strings.ToLower on the schemes
ToLower(s) ==
    CASE s = "Bearer" -> "bearer"
      [] s = "MCP-Token" -> "mcp-token"
      [] s = "Basic" -> "basic"
      [] OTHER -> s

\* strings.HasPrefix(authHeader, scheme + " ")
HasPrefix(authHeader, scheme) == authHeader.scheme = scheme /\ authHeader.sep

\* ExtractBearerToken: <<token string, err>>
ExtractBearerToken(authHeader) ==
    IF authHeader = EmptyHeader THEN <<MalformedJWT, "missing authorization header">>
    ELSE IF ~authHeader.sep \/ ToLower(authHeader.scheme) # "bearer"
    THEN <<MalformedJWT, "invalid authorization header format">>
    ELSE <<authHeader.rest, NoErr>>

\* ExtractMCPToken: <<uuid, err>>
ExtractMCPToken(authHeader) ==
    IF ~authHeader.sep THEN <<NotUUID, "invalid MCP token format">>
    ELSE IF authHeader.scheme # "MCP-Token" THEN <<NotUUID, "expected MCP-Token scheme">>
    ELSE IF authHeader.rest.uuid = NotUUID THEN <<NotUUID, "invalid UUID format">>
    ELSE <<authHeader.rest.uuid, NoErr>>

\* what the interceptor answers: the status, whether the handler ran and
\* with which user id in its context, and the row ValidateToken will touch
Unauthenticated(msg) ==
    [code |-> "Unauthenticated", msg |-> msg, called |-> FALSE, userID |-> "", touch |-> NoToken]

Handled(userID, touch) ==
    [code |-> "OK", msg |-> "", called |-> TRUE, userID |-> userID, touch |-> touch]

\* UnaryServerInterceptorWithMCP on a call of method at time now; md tells
\* whether the context carries metadata, authHeaders is md.Get("authorization")
UnaryServerInterceptorWithMCP(tk, now, method, md, authHeaders) ==
    IF ~md THEN Unauthenticated("missing metadata")
    ELSE IF Len(authHeaders) = 0 THEN Unauthenticated("missing authorization header")
    ELSE LET authHeader == authHeaders[1]
         IN IF HasPrefix(authHeader, "Bearer")
            THEN LET tokenString == ExtractBearerToken(authHeader)
                     claims == ValidateToken(tokenString[1], now)
                     userID == ExtractUserID(claims[1])
                 IN IF tokenString[2] # NoErr THEN Unauthenticated(tokenString[2])
                    ELSE IF claims[2] # NoErr
                    THEN Unauthenticated("invalid JWT token: " \o claims[2])
                    ELSE IF userID[2] # NoErr
                    THEN Unauthenticated("invalid token claims: " \o userID[2])
                    ELSE Handled(userID[1], NoToken)
            ELSE IF HasPrefix(authHeader, "MCP-Token")
            THEN LET token == ExtractMCPToken(authHeader)
                     userID == ServiceValidateToken(tk, token[1], now)
                 IN IF token[2] # NoErr
                    THEN Unauthenticated("invalid MCP token format: " \o token[2])
                    ELSE IF userID[2] # NoErr
                    THEN Unauthenticated("invalid MCP token: " \o userID[2])
                    ELSE Handled(userID[1], userID[3])
            ELSE Unauthenticated(
                     "unsupported authentication scheme (expected 'Bearer' or 'MCP-Token')")

\* the operations of the auth service that need no credentials
PublicMethods ==
    {"/auth.v1.AuthService/GetAuthorizationURL", "/auth.v1.AuthService/HandleCallback",
     "/auth.v1.AuthService/RefreshToken"}

Methods ==
    PublicMethods \cup
    {"/auth.v1.AuthService/GetUserProfile", "/task.v1.TaskService/CreateTask",
     "/tag.v1.TagService/ListTags", "/mcptoken.v1.MCPTokenService/CreateMCPToken"}

\* one call through the interceptor
Intercept(method, md, authHeaders) ==
    LET r == UnaryServerInterceptorWithMCP(mcp_tokens, clock, method, md, authHeaders)
    IN /\ resp' = [req |-> [op |-> "Intercept", method |-> method, md |-> md,
                            headers |-> authHeaders, now |-> clock],
                   code |-> r.code, msg |-> r.msg, called |-> r.called, userID |-> r.userID]
       /\ touches' = IF r.touch # NoToken THEN Schedule(touches, NoErr, r.touch) ELSE touches
       /\ BagCardinality(touches') <= MaxPending
       /\ UNCHANGED <<storeVars, scen, procs, mcp_tokens, nextTokenId, clock>>

(***************************************************************************)
(* SpecAuth: calls of every method through the interceptor, without         *)
(* metadata, without an authorization header and with a header, while      *)
(* users create and revoke tokens and the clock runs.  One method is        *)
(* called with every header, the others with one header of each kind.      *)
(***************************************************************************)
HeadersFor(method) ==
    IF method = "/task.v1.TaskService/CreateTask"
    THEN Headers
    ELSE {[scheme |-> "Bearer", sep |-> TRUE, rest |-> SignedJWT(ValidClaims("u1", ""))],
          [scheme |-> "MCP-Token", sep |-> TRUE, rest |-> UUIDString(TokenUUIDs[1])],
          [scheme |-> "Basic", sep |-> TRUE, rest |-> MalformedJWT]}

NextAuth ==
    \/ \E method \in Methods : Intercept(method, FALSE, <<>>)
    \/ \E method \in Methods : Intercept(method, TRUE, <<>>)
    \/ \E method \in Methods :
          \E authHeader \in HeadersFor(method) : Intercept(method, TRUE, <<authHeader>>)
    \/ \E u \in Users, expiresAt \in {NilTime, 2} :
          CreateToken(u, expiresAt) /\ UNCHANGED scen
    \/ \E u \in Users, id \in TokenIDs :
          RevokeToken(u, id) /\ UNCHANGED scen
    \/ \E id \in TokenIDs, err \in {NoErr, ErrStore} :
          UpdateLastUsedAt(id, err) /\ UNCHANGED scen
    \/ Tick

SpecAuth == Init /\ [][NextAuth]_vars

Intercepted == resp.req.op = "Intercept"

\* the identity a "Bearer <token>" header proves at time now, "" if none
BearerIdentity(h, now) ==
    IF /\ h.scheme = "Bearer" /\ h.sep
       /\ SignatureVerifies(h.rest) /\ TypeIsAccess(h.rest) /\ IssuerMatches(h.rest)
       /\ NotExpired(h.rest, now)
    THEN IF h.rest.claims.UserID # "" THEN h.rest.claims.UserID ELSE h.rest.claims.Subject
    ELSE ""

\* the stored tokens an "MCP-Token <uuid>" header names that are active and
\* not expired at time now
LiveTokens(h, now) ==
    {i \in DOMAIN mcp_tokens :
        /\ h.scheme = "MCP-Token" /\ h.sep
        /\ mcp_tokens[i].token = h.rest.uuid
        /\ mcp_tokens[i].is_active
        /\ (mcp_tokens[i].expires_at = NilTime \/ now <= mcp_tokens[i].expires_at)}

\* the identity the credentials of the last call prove, "" if none
Identity ==
    IF ~resp.req.md \/ Len(resp.req.headers) = 0 THEN ""
    ELSE LET h == resp.req.headers[1]
         IN IF BearerIdentity(h, resp.req.now) # "" THEN BearerIdentity(h, resp.req.now)
            ELSE IF LiveTokens(h, resp.req.now) # {}
            THEN mcp_tokens[CHOOSE i \in LiveTokens(h, resp.req.now) : TRUE].user_id
            ELSE ""

\* C16: on a call of a method outside the public allowlist the handler runs
\* only with the non-empty user id that a "Bearer <token>" or "MCP-Token
\* <uuid>" header proves; without metadata or authorization header, with any
\* other scheme, a malformed uuid or a failed validation the answer is
\* Unauthenticated and the handler does not run.
C16_HandlerOnlyWithIdentity ==
    (Intercepted /\ resp.req.method \notin PublicMethods) =>
        /\ resp.called <=> Identity # ""
        /\ resp.called => (resp.userID = Identity /\ resp.code = "OK")
        /\ ~resp.called => (resp.code = "Unauthenticated" /\ resp.userID = "")

\* a task call with the uuid of a stored token of u2, at the very tick the
\* token expires, has reached the handler as u2
C16_Witness ==
    /\ Intercepted
    /\ resp.req.method = "/task.v1.TaskService/CreateTask"
    /\ resp.called
    /\ resp.userID = "u2"
    /\ resp.req.headers[1].scheme = "MCP-Token"
    /\ \E i \in DOMAIN mcp_tokens :
          /\ mcp_tokens[i].token = resp.req.headers[1].rest.uuid
          /\ mcp_tokens[i].expires_at = resp.req.now

\* C17: for exactly the three public operations of the auth service the
\* interceptor checks no credentials and calls the handler, also without
\* metadata or authorization header; every other method needs credentials.
C17_PublicMethodsSkipChecks ==
    Intercepted =>
        /\ resp.req.method \in PublicMethods => (resp.called /\ resp.code = "OK")
        /\ resp.req.method \notin PublicMethods => (resp.called => Identity # "")

\* every method, public or not, is refused without credentials
AllMethodsNeedCredentials ==
    (Intercepted /\ Identity = "") => (~resp.called /\ resp.code = "Unauthenticated")

\* the stored rows that carry the token value of the last request
RowsOfToken == {i \in DOMAIN mcp_tokens : mcp_tokens[i].token = resp.req.token}

\* the row is past its expiry at the time of the last request
PastExpiry(i) == mcp_tokens[i].expires_at # NilTime /\ resp.req.now > mcp_tokens[i].expires_at

ValidatedAtExpiry ==
    /\ resp.req.op = "ValidateToken"
    /\ resp.err = NoErr
    /\ \E i \in RowsOfToken : mcp_tokens[i].expires_at = resp.req.now

\* a step that answers a token call of the given kind (or leaves all as is)
TokenCallStep(op) ==
    /\ resp'.req.op = op
    /\ touches' = touches
    /\ clock' = clock
    /\ nextTokenId' = nextTokenId

\* what a RevokeToken or DeleteToken step does, by the caller and the row
OwnerOnlyStep(op) ==
    TokenCallStep(op) =>
        LET id == resp'.req.id
            u == resp'.req.caller
        IN /\ id \notin DOMAIN mcp_tokens =>
                 /\ resp'.err = ErrNoRows /\ resp'.code = "NotFound"
                 /\ mcp_tokens' = mcp_tokens
           /\ (id \in DOMAIN mcp_tokens /\ mcp_tokens[id].user_id # u) =>
                 /\ resp'.err = ErrUnauthorized /\ resp'.code \notin {"OK", "NotFound"}
                 /\ mcp_tokens' = mcp_tokens
           /\ (id \in DOMAIN mcp_tokens /\ mcp_tokens[id].user_id = u) =>
                 /\ resp'.err = NoErr /\ resp'.code = "OK"
                 /\ IF op = "RevokeToken"
                    THEN id \in DOMAIN mcp_tokens' /\ ~mcp_tokens'[id].is_active
                    ELSE id \notin DOMAIN mcp_tokens'

\* C22: RevokeToken(id) and DeleteToken(id) by a caller who is not the
\* token's owner fail with the unauthorized error, which is not the not-found
\* answer a missing id gets, and leave the token row as it is; by the owner
\* they succeed.
C22_OwnerOnlyRevokeDelete == [][OwnerOnlyStep("RevokeToken") /\ OwnerOnlyStep("DeleteToken")]_vars

\* another user's delete of a stored, active token was refused
C22_Witness ==
    /\ resp.req.op = "DeleteToken"
    /\ resp.err = ErrUnauthorized
    /\ resp.req.id \in DOMAIN mcp_tokens
    /\ mcp_tokens[resp.req.id].user_id # resp.req.caller
    /\ mcp_tokens[resp.req.id].is_active

\* C23: the responses of GetMCPToken and ListMCPTokens never carry the secret
\* value of a token; only the CreateMCPToken response does.
C23_SecretOnlyAtCreation ==
    resp.req.op \in {"GetToken", "ListTokens"} =>
        \A k \in 1..Len(resp.tokens) : resp.tokens[k].token \notin Range(TokenUUIDs)

\* the owner alone is shown the token messages
TokensShownToOwnerOnly ==
    resp.req.op \in {"GetToken", "ListTokens"} =>
        \A k \in 1..Len(resp.tokens) :
            /\ resp.tokens[k].id \in DOMAIN mcp_tokens
            /\ mcp_tokens[resp.tokens[k].id].user_id = resp.req.caller

\* a step in which a detached update ends, well or not
UpdateEnds == BagCardinality(touches') < BagCardinality(touches)

\* a step that answers a ValidateToken call (or leaves all as is)
ValidateAnswers ==
    /\ ~UpdateEnds
    /\ resp'.req.op = "ValidateToken"
    /\ clock' = clock
    /\ mcp_tokens' = mcp_tokens

\* the rows of mcp_tokens but for their last_used_at
ButLastUsed(tk) == [i \in DOMAIN tk |-> [tk[i] EXCEPT !.last_used_at = NilTime]]

\* C24: a successful ValidateToken returns the owner's id and starts exactly
\* one update of last_used_at without waiting for it; a failed one starts
\* none; and the end of an update, whether it succeeded or failed, changes
\* no response and nothing of the rows but last_used_at.
C24_TouchDetached ==
    [][/\ ValidateAnswers =>
             IF resp'.err = NoErr
             THEN \E i \in DOMAIN mcp_tokens :
                     /\ mcp_tokens[i].token = resp'.req.token
                     /\ resp'.userID = mcp_tokens[i].user_id
                     /\ touches' = touches (+) SetToBag({i})
             ELSE touches' = touches
       /\ UpdateEnds =>
             /\ resp' = resp
             /\ ButLastUsed(mcp_tokens') = ButLastUsed(mcp_tokens)
             /\ BagCardinality(touches') = BagCardinality(touches) - 1]_vars

\* a validation has succeeded while the update of an earlier one is still
\* pending and no update has landed yet
C24_Witness ==
    /\ resp.req.op = "ValidateToken"
    /\ resp.err = NoErr
    /\ resp.userID \in Users
    /\ \E i \in DOMAIN mcp_tokens :
          /\ mcp_tokens[i].token = resp.req.token
          /\ CopiesIn(i, touches) = 2
          /\ mcp_tokens[i].last_used_at = NilTime

(***************************************************************************)
(* SpecCancel: Service.UpdateTask and Service.DeleteTask in two steps, the  *)
(* repository write and then the orphan cleanup on the same ctx, with the   *)
(* request's ctx cancelled at any moment between them; next to it token     *)
(* validations and their detached updates, which run on                    *)
(* context.Background().  procs holds the task request in flight; scen the  *)
(* outcome of the last cleanup.                                            *)
(***************************************************************************)
ErrCanceled == "context canceled"

\* Service.DeleteTask up to the return of s.repo.Delete
RepoDelete(u, id) ==
    LET gone == DeleteTaskRows(tasks, id, u)
    IN /\ procs = <<>>
       /\ tasks' = [x \in DOMAIN tasks \ gone |-> tasks[x]]
       /\ task_tags' = CascadeTaskTags(task_tags, gone)
       /\ items' = CascadeItems(items, gone)
       /\ procs' = <<[caller |-> u, cancelled |-> FALSE,
                      result |-> Resp(Req("DeleteTask", u, id, Absent, <<>>), "OK", "", NoErr,
                                      <<>>, <<>>, <<>>)]>>
       /\ UNCHANGED <<nextTaskId, tags, nextTagId, nextItemId, resp, scen, tokenVars>>

\* Service.UpdateTask of a stored task up to the return of s.repo.Update
RepoUpdate(u, id, title, tagNames) ==
    LET loaded == RepoGetTask(tasks, task_tags, items, id, u)
        st == ResolveTagNames(tagNames, u,
                  [tags |-> tags, next |-> nextTagId, ids |-> <<>>, err |-> NoErr])
        t == ServiceUpdateTask(loaded, title, "", st.ids, FALSE, NilTime)
    IN /\ procs = <<>>
       /\ GetTaskFound(tasks, id, u)
       /\ st.err = NoErr
       /\ tasks' = [tasks EXCEPT ![id] = UpdateTaskRow(@, t)]
       /\ task_tags' = {p \in task_tags : p[1] # id}
                          \cup {<<id, st.ids[k]>> : k \in 1..Len(st.ids)}
       /\ tags' = st.tags
       /\ nextTagId' = st.next
       /\ procs' = <<[caller |-> u, cancelled |-> FALSE,
                      result |-> Resp(Req("UpdateTask", u, id, Absent, <<>>), "OK", "", NoErr,
                                      <<taskToProto(t)>>, <<>>, <<>>)]>>
       /\ UNCHANGED <<nextTaskId, items, nextItemId, resp, scen, tokenVars>>

\* the caller goes away or the deadline passes: ctx.Done() of the request
CancelRequest ==
    /\ procs # <<>>
    /\ ~procs[1].cancelled
    /\ procs' = <<[procs[1] EXCEPT !.cancelled = TRUE]>>
    /\ UNCHANGED <<storeVars, resp, scen, tokenVars>>

\* a cleanup that runs on a context of its own
DetachedCtxErr(cancelled) == NoErr

\* the error of a statement run on the request's ctx
CtxErr(cancelled) == IF cancelled THEN ErrCanceled ELSE NoErr

\* s.tagRepo.DeleteOrphans(ctx, userID) and the return of the service method
CleanupAndReturn ==
    /\ procs # <<>>
    /\ tags' = CleanUpOrphans(tags, task_tags, procs[1].caller, CtxErr(procs[1].cancelled))
    /\ scen' = <<IF CtxErr(procs[1].cancelled) = NoErr THEN "ran" ELSE "aborted">>
    /\ resp' = procs[1].result
    /\ procs' = <<>>
    /\ UNCHANGED <<tasks, nextTaskId, nextTagId, task_tags, items, nextItemId, tokenVars>>

NextCancel ==
    \/ \E names \in TagNameLists :
          /\ CreateTask(Caller, "x", "", names, Absent, <<>>, 0)
          /\ WithinCleanup'
          /\ UNCHANGED <<scen, procs, tokenVars>>
    \/ \E id \in 1..MaxCleanupTasks : RepoDelete(Caller, id)
    \/ \E id \in 1..MaxCleanupTasks, names \in TagNameLists :
          RepoUpdate(Caller, id, "y", names) /\ WithinCleanup'
    \/ CancelRequest
    \/ CleanupAndReturn
    \/ CreateToken(Caller, NilTime) /\ UNCHANGED scen
    \/ \E id \in TokenIDs : CallServiceValidateToken(TokenUUIDs[id]) /\ UNCHANGED scen
    \/ \E id \in TokenIDs : UpdateLastUsedAt(id, NoErr) /\ UNCHANGED scen

SpecCancel == Init /\ [][NextCancel]_vars

\* the handler goes on to its cleanup and every started goroutine runs
SpecCancelFair ==
    /\ SpecCancel
    /\ WF_vars(CleanupAndReturn)
    /\ \A id \in TokenIDs : WF_vars(UpdateLastUsedAt(id, NoErr) /\ UNCHANGED scen)

\* every cleanup whose task write is done runs to its end
CleanupRunsToCompletion == (procs # <<>>) ~> (procs = <<>> /\ scen = <<"ran">>)

\* every started update of last_used_at lands
TouchRunsToCompletion ==
    \A id \in TokenIDs :
        BagIn(id, touches) ~> (id \in DOMAIN mcp_tokens /\ mcp_tokens[id].last_used_at # NilTime)

\* C25: when the request is cancelled after its task update or delete is
\* stored, or after its token is validated, the orphan cleanup and the update
\* of last_used_at still run to completion under fair scheduling.
C25_DetachedFromCancellation == CleanupRunsToCompletion /\ TouchRunsToCompletion

(***************************************************************************)
(* Listing and archiving.  After a ListTasks call scen holds its inputs,   *)
(* <<filter tag ids, include_archived, archived_only>>, the flags as       *)
(* optional fields of the request (<<>> when absent).  After an ArchiveTask*)
(* call scen holds <<task id, the task as it was read before the call>>,   *)
(* kept while only reads and UnarchiveTask calls of that task follow.      *)
(***************************************************************************)
\* what the owner read of the task before ArchiveTask(id)
BeforeArchive(id) ==
    IF GetTaskFound(tasks, id, Caller)
    THEN <<id, RepoGetTask(tasks, task_tags, items, id, Caller)>>
    ELSE <<>>

\* the task was archived earlier and only read or unarchived since
ArchivedEarlier(id) == Len(scen) = 2 /\ scen[1] = id

SinceArchive(id) == IF ArchivedEarlier(id) THEN scen ELSE <<>>

OptionalBools == {<<>>, <<FALSE>>, <<TRUE>>}

\* req.IncludeArchived != nil && *req.IncludeArchived
IsSetTrue(p) == p # <<>> /\ p[1]

MaxArchiveItems == 1

WithinArchive ==
    nextTaskId <= MaxTasks + 1 /\ nextTagId <= MaxTags + 1
                               /\ nextItemId <= MaxArchiveItems + 1

\* the tag ids a filter can name: the stored ones and one that no tag has
FilterTagIDs == 1..(MaxTags + 1)

ArchiveTagNameLists == {<<>>, <<"a">>, <<"a", "b">>}

NextArchive ==
    \/ \E u \in Users, names \in ArchiveTagNameLists :
          /\ CreateTask(u, "x", "", names, Absent, <<>>, 0)
          /\ WithinArchive'
          /\ scen' = <<>>
          /\ UNCHANGED <<procs, tokenVars>>
    \/ \E id \in TaskIDs :
          /\ AddChecklistItem(Caller, id, "c")
          /\ WithinArchive'
          /\ scen' = <<>>
          /\ UNCHANGED <<procs, tokenVars>>
    \/ \E id \in TaskIDs :
          /\ ArchiveTask(Caller, id)
          /\ scen' = BeforeArchive(id)
          /\ UNCHANGED <<procs, tokenVars>>
    \/ \E id \in TaskIDs :
          /\ UnarchiveTask(Caller, id)
          /\ scen' = SinceArchive(id)
          /\ UNCHANGED <<procs, tokenVars>>
    \/ \E id \in TaskIDs :
          /\ GetTask(Caller, id)
          /\ scen' = SinceArchive(id)
          /\ UNCHANGED <<procs, tokenVars>>
    \/ \E f \in SUBSET FilterTagIDs, inc \in OptionalBools, only \in OptionalBools :
          /\ ListTasks(Caller, f, 0, IsSetTrue(inc), IsSetTrue(only))
          /\ scen' = <<f, inc, only>>
          /\ UNCHANGED <<procs, tokenVars>>

SpecArchive == Init /\ [][NextArchive]_vars

ListAnswered == resp.req.op = "ListTasks" /\ resp.err = NoErr /\ Len(scen) = 3

ListedIDs == {resp.tasks[k].id : k \in DOMAIN resp.tasks}

OwnTasks == {id \in DOMAIN tasks : tasks[id].owner_id = resp.req.caller}

ActiveTasks == {id \in OwnTasks : ~tasks[id].archived}

ArchivedTasks == {id \in OwnTasks : tasks[id].archived}

\* the tasks the archive flags of the last call make visible
VisibleTasks ==
    IF scen[3] = <<TRUE>> THEN ArchivedTasks
    ELSE IF scen[2] = <<TRUE>> THEN OwnTasks
    ELSE ActiveTasks

\* C26: ListTasks shows the caller's tasks in one of three archive modes:
\* active tasks only when neither flag is set, active and archived tasks when
\* only includeArchived is set, archived tasks only when archivedOnly is set,
\* whether or not includeArchived is set with it.
C26_ArchiveModes ==
    ListAnswered =>
        /\ ListedIDs \subseteq VisibleTasks
        /\ scen[1] = {} => ListedIDs = VisibleTasks
        /\ scen[3] = <<TRUE>> => ListedIDs \cap ActiveTasks = {}
        /\ scen[3] # <<TRUE>> /\ scen[2] # <<TRUE>> => ListedIDs \cap ArchivedTasks = {}

\* both flags set, with an active and an archived task to choose from
C26_Witness ==
    /\ ListAnswered
    /\ scen = <<{}, <<TRUE>>, <<TRUE>>>>
    /\ ActiveTasks # {}
    /\ ListedIDs = ArchivedTasks
    /\ ListedIDs # {}

\* each mode shows a different list of the same tasks
ArchiveModesDiffer ==
    /\ ListAnswered
    /\ scen = <<{}, <<TRUE>>, <<>>>>
    /\ ListedIDs = ActiveTasks \cup ArchivedTasks
    /\ ActiveTasks # {}
    /\ ArchivedTasks # {}

ArchiveAnswered(op) == resp.req.op = op /\ resp.code = "OK"

\* an archive call changes the archived mark of its task and nothing else
ArchiveFrame(op, flag) ==
    resp'.req.op = op /\ resp'.code = "OK" /\ (resp' # resp \/ tasks' # tasks) =>
        LET id == resp'.req.id
        IN /\ DOMAIN tasks' = DOMAIN tasks
           /\ \A t \in DOMAIN tasks \ {id} : tasks'[t] = tasks[t]
           /\ tasks'[id].archived = flag
           /\ tasks'[id].title = tasks[id].title
           /\ tasks'[id].notes = tasks[id].notes
           /\ tasks'[id].owner_id = tasks[id].owner_id
           /\ tasks'[id].start_date = tasks[id].start_date
           /\ task_tags' = task_tags
           /\ items' = items
           /\ tags' = tags

\* GetTask after ArchiveTask shows the tags and the checklist read before it
GetAfterArchive ==
    ArchiveAnswered("GetTask") /\ ArchivedEarlier(resp.req.id) =>
        /\ resp.tasks[1].tag_ids = scen[2].TagIDs
        /\ resp.tasks[1].checklist_items = taskToProto(scen[2]).checklist_items

\* UnarchiveTask after ArchiveTask leaves the task active and otherwise as it
\* was read before the archive
UnarchiveAfterArchive ==
    ArchiveAnswered("UnarchiveTask") /\ ArchivedEarlier(resp.req.id) =>
        /\ ~resp.tasks[1].archived
        /\ RepoGetTask(tasks, task_tags, items, resp.req.id, Caller)
               = [scen[2] EXCEPT !.Archived = FALSE]

\* C27: ArchiveTask marks the task archived and UnarchiveTask clears the
\* mark, and neither changes the task's title, notes, owner, start date, tag
\* associations or checklist items: GetTask by the owner after an archive
\* shows the same tags and checklist, and archive followed by unarchive
\* leaves an active task with all of these as before.
C27_ArchiveFrame ==
    /\ [](ArchiveAnswered("ArchiveTask") => tasks[resp.req.id].archived)
    /\ []GetAfterArchive
    /\ []UnarchiveAfterArchive
    /\ [][ArchiveFrame("ArchiveTask", TRUE) /\ ArchiveFrame("UnarchiveTask", FALSE)]_vars

\* an archived task with two tags and a checklist item, read by its owner
C27_Witness ==
    /\ ArchiveAnswered("GetTask")
    /\ ArchivedEarlier(resp.req.id)
    /\ resp.tasks[1].archived
    /\ Len(resp.tasks[1].tag_ids) = 2
    /\ Len(resp.tasks[1].checklist_items) = 1

\* the same task, unarchived again
UnarchivedAgain ==
    /\ ArchiveAnswered("UnarchiveTask")
    /\ ArchivedEarlier(resp.req.id)
    /\ ~scen[2].Archived
    /\ Len(scen[2].TagIDs) = 2
    /\ Len(scen[2].Checklist) = 1

\* the tasks that reference at least one tag id of f
TaggedWith(f) == {id \in DOMAIN tasks : \E p \in task_tags : p[1] = id /\ p[2] \in f}

\* C28: ListTasks with a non-empty tag filter returns exactly the visible
\* tasks of the caller that reference at least one tag id of the filter, each
\* of them once, however many ids of the filter it references; a filter whose
\* ids no task references returns the empty list.
C28_TagFilterIsUnion ==
    ListAnswered /\ scen[1] # {} =>
        /\ ListedIDs = VisibleTasks \cap TaggedWith(scen[1])
        /\ Len(resp.tasks) = Cardinality(ListedIDs)

\* a task with two tags, listed once by a filter that names both
C28_Witness ==
    /\ ListAnswered
    /\ Cardinality(scen[1]) = 2
    /\ Len(resp.tasks) = 1
    /\ Len(resp.tasks[1].tag_ids) = 2
    /\ \A k \in 1..2 : resp.tasks[1].tag_ids[k] \in scen[1]

\* a task created with tag names a and b, found by the id of a alone
FoundByOneTag ==
    /\ ListAnswered
    /\ Cardinality(scen[1]) = 1
    /\ \E t \in DOMAIN tags : tags[t].name = "a" /\ scen[1] = {t}
    /\ \E k \in DOMAIN resp.tasks : Len(resp.tasks[k].tag_ids) = 2

\* a filter that names only an id no task references, with tagged tasks stored
FilterWithoutTasks ==
    /\ ListAnswered
    /\ scen[1] # {}
    /\ TaggedWith(scen[1]) = {}
    /\ VisibleTasks \cap TaggedWith(FilterTagIDs) # {}
    /\ resp.tasks = <<>>

(***************************************************************************)
(* Owners.                                                                 *)
(***************************************************************************)
\* every task and tag stored before and after a step has the owner it had
OwnersKept ==
    /\ \A id \in DOMAIN tasks \cap DOMAIN tasks' : tasks'[id].owner_id = tasks[id].owner_id
    /\ \A t \in DOMAIN tags \cap DOMAIN tags' : tags'[t].owner_id = tags[t].owner_id

\* a row is inserted with the caller as its owner
OwnersSetAtCreation ==
    /\ \A id \in DOMAIN tasks' \ DOMAIN tasks : tasks'[id].owner_id = resp'.req.caller
    /\ \A t \in DOMAIN tags' \ DOMAIN tags : tags'[t].owner_id = resp'.req.caller

\* C29: no operation changes the owner of a task or of a tag: through every
\* update, archive, unarchive, checklist and tag-rename operation a row keeps
\* the owner it was created with.
C29_OwnerNeverChanges == [][OwnersKept /\ OwnersSetAtCreation]_vars

\* a task of the second user, updated by that user
C29_Witness ==
    /\ resp.req.op = "UpdateTask"
    /\ resp.code = "OK"
    /\ resp.req.caller = "u2"
    /\ tasks[resp.req.id].title = "y"
    /\ tasks[resp.req.id].owner_id = "u2"

\* a tag renamed by its owner
RenamedByOwner ==
    /\ resp.req.op = "UpdateTag"
    /\ resp.code = "OK"
    /\ tags[resp.req.id].name = resp.tags[1].name
    /\ tags[resp.req.id].owner_id = resp.req.caller

(***************************************************************************)
(* Tag names.  scen holds <<name>>, the tag name of the last CreateTag,    *)
(* UpdateTag or CreateTask call.                                           *)
(***************************************************************************)
NextTagNames ==
    \/ \E u \in Users, name \in TagNames :
          /\ CreateTag(u, name)
          /\ Within'
          /\ scen' = <<name>>
          /\ UNCHANGED <<procs, tokenVars>>
    \/ \E u \in Users, id \in TagIDs, name \in TagNames :
          /\ UpdateTag(u, id, name)
          /\ scen' = <<name>>
          /\ UNCHANGED <<procs, tokenVars>>
    \/ \E u \in Users, name \in TagNames :
          /\ CreateTask(u, "x", "", <<name>>, Absent, <<>>, 0)
          /\ Within'
          /\ scen' = <<name>>
          /\ UNCHANGED <<procs, tokenVars>>
    \/ \E u \in Users, id \in TagIDs :
          /\ DeleteTag(u, id)
          /\ scen' = <<>>
          /\ UNCHANGED <<procs, tokenVars>>

SpecTagNames == Init /\ [][NextTagNames]_vars

HoldsName(u, name) ==
    \E t \in DOMAIN tags : tags[t].owner_id = u /\ tags[t].name = name

\* no owner holds two tags with one name
UniquePerOwner ==
    \A t1 \in DOMAIN tags, t2 \in DOMAIN tags :
        tags[t1].owner_id = tags[t2].owner_id /\ tags[t1].name = tags[t2].name => t1 = t2

\* no two tags carry one name, whoever owns them
UniqueOverall ==
    \A t1 \in DOMAIN tags, t2 \in DOMAIN tags : tags[t1].name = tags[t2].name => t1 = t2

\* CreateTag, or the getOrCreate of CreateTask, was called with a valid name
NameRequested ==
    /\ resp.req.op \in {"CreateTag", "CreateTask"}
    /\ Len(scen) = 1
    /\ ValidateTagName(scen[1]) = "OK"

\* C30: no owner ever holds two tags with the same name, and the name of one
\* owner's tag is free for every other owner: after CreateTag or getOrCreate
\* for a valid name the caller holds a tag of its own with that name, whether
\* or not another owner uses the name.
C30_NamesUniquePerOwner ==
    /\ UniquePerOwner
    /\ NameRequested => HoldsName(resp.req.caller, scen[1])

\* a CreateTag refused for a name that only another owner holds
RefusedForOthersName ==
    /\ resp.req.op = "CreateTag"
    /\ resp.err = ErrUnique
    /\ Len(scen) = 1
    /\ ~HoldsName(resp.req.caller, scen[1])
    /\ \E u \in Users \ {resp.req.caller} : HoldsName(u, scen[1])

\* with names no other owner holds, the caller ends up holding the name
NameRequestedAndFree ==
    /\ NameRequested
    /\ ~\E u \in Users \ {resp.req.caller} : HoldsName(u, scen[1])
    => HoldsName(resp.req.caller, scen[1])

(***************************************************************************)
(* Requests refused at the boundary.  Ids travel as strings: UUIDTable[n]  *)
(* is the wire form of the id n.                                           *)
(***************************************************************************)
UUIDTable == <<"00000000-0000-0000-0000-000000000001",
               "00000000-0000-0000-0000-000000000002">>

MalformedUUID == "not-a-uuid"

WireIDs == {MalformedUUID} \cup {UUIDTable[n] : n \in DOMAIN UUIDTable}

\* uuid.Parse(s): <<"OK", id>> or <<"InvalidArgument", NoTask>>
uuidParse(s) ==
    IF \E n \in DOMAIN UUIDTable : UUIDTable[n] = s
    THEN <<"OK", CHOOSE n \in DOMAIN UUIDTable : UUIDTable[n] = s>>
    ELSE <<"InvalidArgument", NoTask>>

\* id, err := uuid.Parse(req.Id); if err != nil { return InvalidArgument }
RejectMalformedID(op, u, msg) ==
    /\ resp' = Fail(Req(op, u, NoTask, Absent, <<>>), "InvalidArgument", msg, NoErr)
    /\ UNCHANGED storeVars

\* TaskServer.ReorderChecklistItems: the task id, then the emptiness of the
\* list, then every item id is parsed before the service is called
ReorderChecklistItemsWire(u, s, itemIDStrs) ==
    IF uuidParse(s)[1] # "OK"
    THEN RejectMalformedID("ReorderChecklistItems", u, "invalid task ID format")
    ELSE IF /\ itemIDStrs # <<>>
            /\ \E k \in DOMAIN itemIDStrs : uuidParse(itemIDStrs[k])[1] # "OK"
    THEN RejectMalformedID("ReorderChecklistItems", u, "invalid checklist item ID format")
    ELSE ReorderChecklistItems(u, uuidParse(s)[2],
             [k \in DOMAIN itemIDStrs |-> uuidParse(itemIDStrs[k])[2]])

MaxBoundaryTasks == 1

WithinBoundary ==
    nextTaskId <= MaxBoundaryTasks + 1 /\ nextTagId <= MaxTags + 1
                                       /\ nextItemId <= MaxItems + 1

\* <<title, notes>>: one valid pair and one pair for each refusal
BoundaryTaskInputs ==
    {<<"x", "">>, <<"", "">>, <<" ", "">>, <<LongTitle, "">>, <<"y", LongNotes>>}

BoundaryStartDates == {Absent, "not-a-date", DateTable[1]}

BoundaryContents == {"c", "", LongContent}

BoundaryTagNames == {"a", "", LongName, ControlName}

NextBoundary ==
    \/ \E in \in BoundaryTaskInputs, sd \in BoundaryStartDates, failAt \in 0..1 :
          /\ CreateTask(Caller, in[1], in[2], <<"a">>, sd, <<>>, failAt)
          /\ WithinBoundary'
          /\ UNCHANGED <<scen, procs, tokenVars>>
    \/ \E s \in WireIDs, in \in BoundaryTaskInputs, sd \in BoundaryStartDates :
          /\ IF uuidParse(s)[1] # "OK"
             THEN RejectMalformedID("UpdateTask", Caller, "invalid task ID format")
             ELSE UpdateTask(Caller, uuidParse(s)[2], in[1], in[2], <<"b">>, sd, NoErr)
          /\ WithinBoundary'
          /\ UNCHANGED <<scen, procs, tokenVars>>
    \/ \E s \in WireIDs :
          /\ IF uuidParse(s)[1] # "OK"
             THEN RejectMalformedID("DeleteTask", Caller, "invalid task ID format")
             ELSE DeleteTask(Caller, uuidParse(s)[2], NoErr)
          /\ UNCHANGED <<scen, procs, tokenVars>>
    \/ \E s \in WireIDs, content \in BoundaryContents :
          /\ IF uuidParse(s)[1] # "OK"
             THEN RejectMalformedID("AddChecklistItem", Caller, "invalid task ID format")
             ELSE AddChecklistItem(Caller, uuidParse(s)[2], content)
          /\ WithinBoundary'
          /\ UNCHANGED <<scen, procs, tokenVars>>
    \/ \E s \in WireIDs, content \in BoundaryContents :
          /\ IF uuidParse(s)[1] # "OK"
             THEN RejectMalformedID("UpdateChecklistItem", Caller, "invalid checklist item ID format")
             ELSE UpdateChecklistItem(Caller, uuidParse(s)[2], content)
          /\ UNCHANGED <<scen, procs, tokenVars>>
    \/ \E s \in WireIDs, order \in SeqsUpTo(WireIDs, MaxItems) :
          /\ ReorderChecklistItemsWire(Caller, s, order)
          /\ UNCHANGED <<scen, procs, tokenVars>>
    \/ \E name \in BoundaryTagNames :
          /\ CreateTag(Caller, name)
          /\ WithinBoundary'
          /\ UNCHANGED <<scen, procs, tokenVars>>
    \/ \E s \in WireIDs, name \in BoundaryTagNames :
          /\ IF uuidParse(s)[1] # "OK"
             THEN RejectMalformedID("UpdateTag", Caller, "invalid tag ID format")
             ELSE UpdateTag(Caller, uuidParse(s)[2], name)
          /\ UNCHANGED <<scen, procs, tokenVars>>

SpecBoundary == Init /\ [][NextBoundary]_vars

\* C31: a request that is answered with InvalidArgument (empty or over-long
\* title, over-long notes, empty or over-long checklist content, malformed
\* id, a start_date that is no YYYY-MM-DD date, invalid tag name) leaves the
\* store as it was: no task, tag, tag association or checklist item is
\* created, modified or deleted by it.
C31_RejectedLeavesStore ==
    [][resp'.code = "InvalidArgument" => UNCHANGED storeVars]_vars

\* an update with a malformed date, refused with a task, a tag and an item stored
C31_Witness ==
    /\ resp.code = "InvalidArgument"
    /\ resp.req.op = "UpdateTask"
    /\ resp.req.start_date = "not-a-date"
    /\ DOMAIN tasks # {}
    /\ DOMAIN tags # {}
    /\ DOMAIN items # {}

(***************************************************************************)
(* Checklist authorization.                                                *)
(***************************************************************************)
ChecklistOps ==
    {"AddChecklistItem", "UpdateChecklistItem", "SetChecklistItemCompleted",
     "DeleteChecklistItem", "ReorderChecklistItems"}

\* the request names a stored task of the caller, or a stored item of such a
\* task (AddChecklistItem and ReorderChecklistItems name the task, the other
\* operations the item)
ParentOwned(req) ==
    IF req.op \in {"AddChecklistItem", "ReorderChecklistItems"}
    THEN req.id \in DOMAIN tasks /\ tasks[req.id].owner_id = req.caller
    ELSE /\ req.id \in DOMAIN items
         /\ items[req.id].task_id \in DOMAIN tasks
         /\ tasks[items[req.id].task_id].owner_id = req.caller

\* the step answers a checklist request whose parent task is not the caller's
UnauthorizedChecklistStep == resp'.req.op \in ChecklistOps /\ ~ParentOwned(resp'.req)

\* C32: every checklist operation is authorized by the owner of the parent
\* task: when the caller is not that owner, or the task or item does not
\* exist, the operation fails and no checklist item is created, changed,
\* removed or repositioned.
C32_ChecklistOwnerChecked ==
    [][UnauthorizedChecklistStep =>
           /\ resp'.code # "OK"
           /\ items' = items
           /\ nextItemId' = nextItemId]_vars

\* a request for an item of another user's task, refused
C32_Witness ==
    /\ resp.req.op \in {"UpdateChecklistItem", "SetChecklistItemCompleted",
                        "DeleteChecklistItem"}
    /\ resp.code = "NotFound"
    /\ resp.req.id \in DOMAIN items
    /\ tasks[items[resp.req.id].task_id].owner_id # resp.req.caller

\* a reorder of another user's task, refused although the list names its items
ReorderOfOthersTask ==
    /\ resp.req.op = "ReorderChecklistItems"
    /\ resp.code # "OK"
    /\ resp.req.id \in DOMAIN tasks
    /\ tasks[resp.req.id].owner_id # resp.req.caller
    /\ resp.req.item_ids # <<>>
    /\ \A k \in DOMAIN resp.req.item_ids :
           /\ resp.req.item_ids[k] \in DOMAIN items
           /\ items[resp.req.item_ids[k]].task_id = resp.req.id

(***************************************************************************)
(* Appending a checklist item.                                             *)
(***************************************************************************)
\* the positions the items of a task hold
PositionsOfTask(it, taskID) == {it[i].sort_order : i \in ItemsOfTask(it, taskID)}

\* the step is an AddChecklistItem that answered with the new item
AddedItem == resp'.req.op = "AddChecklistItem" /\ resp'.code = "OK" /\ items' # items

\* the new item is uncompleted, sits at 0 in an empty checklist and above
\* every position otherwise, is listed last, and the stored items are as before
AppendedLast ==
    LET taskID == resp'.req.id
        new == resp'.items[1].id
        listed == ListChecklistItemIDs(tasks', items', taskID, resp'.req.caller)
    IN /\ new \notin DOMAIN items
       /\ DOMAIN items' = DOMAIN items \cup {new}
       /\ items'[new].task_id = taskID
       /\ ~items'[new].completed
       /\ ~resp'.items[1].completed
       /\ resp'.items[1].sort_order = items'[new].sort_order
       /\ IF PositionsOfTask(items, taskID) = {}
          THEN items'[new].sort_order = 0
          ELSE /\ items'[new].sort_order - 1 \in PositionsOfTask(items, taskID)
               /\ \A x \in PositionsOfTask(items, taskID) : x < items'[new].sort_order
       /\ listed[Len(listed)] = new
       /\ \A i \in DOMAIN items : items'[i] = items[i]

\* C33: AddChecklistItem by the task's owner creates an uncompleted item at
\* position 0 when the task has no items and at one more than the largest
\* position of the task otherwise, so the new item is listed last and no
\* existing item changes position, content or completion.
C33_AddAppendsLast == [][AddedItem => AppendedLast]_vars

\* an item added behind another one
C33_Witness ==
    /\ resp.req.op = "AddChecklistItem"
    /\ resp.code = "OK"
    /\ resp.items[1].sort_order = 1
    /\ Cardinality(ItemsOfTask(items, resp.req.id)) = 2

\* an item added to a checklist whose only item was deleted: position 0 again
AddedToEmptiedChecklist ==
    /\ resp.req.op = "AddChecklistItem"
    /\ resp.code = "OK"
    /\ resp.items[1].id = 2
    /\ resp.items[1].sort_order = 0

(***************************************************************************)
(* The names of stored tags.                                               *)
(***************************************************************************)
NextStoredNames ==
    \/ \E name \in BoundaryTagNames :
          /\ CreateTag(Caller, name)
          /\ Within'
          /\ scen' = <<name>>
          /\ UNCHANGED <<procs, tokenVars>>
    \/ \E id \in TagIDs, name \in BoundaryTagNames :
          /\ UpdateTag(Caller, id, name)
          /\ scen' = <<name>>
          /\ UNCHANGED <<procs, tokenVars>>
    \/ \E name \in BoundaryTagNames :
          /\ CreateTask(Caller, "x", "", <<name>>, Absent, <<>>, 0)
          /\ Within'
          /\ scen' = <<name>>
          /\ UNCHANGED <<procs, tokenVars>>
    \/ \E id \in TaskIDs, name \in BoundaryTagNames :
          /\ UpdateTask(Caller, id, "x", "", <<name>>, Absent, NoErr)
          /\ Within'
          /\ scen' = <<name>>
          /\ UNCHANGED <<procs, tokenVars>>

SpecStoredNames == Init /\ [][NextStoredNames]_vars

\* C34: every stored tag, created explicitly by CreateTag or UpdateTag or
\* implicitly from the tag names of CreateTask or UpdateTask, has a name that
\* is non-empty, within the maximum tag-name length and free of control
\* characters.
C34_StoredTagNamesValid ==
    \A t \in DOMAIN tags : ValidateTagName(tags[t].name) = "OK"

\* CreateTag and UpdateTag alone never store an invalid name
ExplicitNamesValid ==
    resp.req.op \in {"CreateTag", "UpdateTag"} /\ resp.code = "OK" =>
        /\ ValidateTagName(scen[1]) = "OK"
        /\ ValidateTagName(resp.tags[1].name) = "OK"

\* a task operation stored a tag under the invalid name it was given
ImplicitNameInvalid ==
    /\ resp.req.op \in {"CreateTask", "UpdateTask"}
    /\ resp.code = "OK"
    /\ ValidateTagName(scen[1]) # "OK"
    /\ \E t \in DOMAIN tags : tags[t].name = scen[1]

\* an over-long name is stored by no operation
OverlongNameNotStored == \A t \in DOMAIN tags : tags[t].name # LongName

(***************************************************************************)
(* Paging.  scen holds <<page_token, page_size>> of the last list call.    *)
(***************************************************************************)
\* if req.PageToken != "" { return Unimplemented }
RejectPageToken(op, u) ==
    /\ resp' = Fail(Req(op, u, NoTask, Absent, <<>>), "Unimplemented",
                    "page_token is not supported yet", NoErr)
    /\ UNCHANGED storeVars

PageTokens == {"", "next"}

PageSizes == {-1, 0, 1, 2, 100, 101}

MaxPageTasks == 3

WithinPaging == nextTaskId <= MaxPageTasks + 1 /\ nextTagId <= MaxTags + 1

NextPaging ==
    \/ /\ CreateTask(Caller, "x", "", <<>>, Absent, <<>>, 0)
       /\ WithinPaging'
       /\ scen' = <<>>
       /\ UNCHANGED <<procs, tokenVars>>
    \/ \E name \in TagNames :
          /\ CreateTag(Caller, name)
          /\ WithinPaging'
          /\ scen' = <<>>
          /\ UNCHANGED <<procs, tokenVars>>
    \/ \E token \in PageTokens, pageSize \in PageSizes :
          /\ IF token # "" THEN RejectPageToken("ListTasks", Caller)
             ELSE ListTasks(Caller, {}, pageSize, FALSE, FALSE)
          /\ scen' = <<token, pageSize>>
          /\ UNCHANGED <<procs, tokenVars>>
    \/ \E token \in PageTokens, pageSize \in PageSizes :
          /\ IF token # "" THEN RejectPageToken("ListTags", Caller)
             ELSE ListTags(Caller, pageSize)
          /\ scen' = <<token, pageSize>>
          /\ UNCHANGED <<procs, tokenVars>>

SpecPaging == Init /\ [][NextPaging]_vars

PageAnswered == resp.req.op \in {"ListTasks", "ListTags"} /\ Len(scen) = 2

\* the page size the claim states for the requested one
StatedPageSize == IF scen[2] \in 1..100 THEN scen[2] ELSE 30

\* what the last list call returned, as ids
ReturnedIDs ==
    IF resp.req.op = "ListTasks" THEN [k \in DOMAIN resp.tasks |-> resp.tasks[k].id]
    ELSE [k \in DOMAIN resp.tags |-> resp.tags[k].id]

\* everything the call could list, in the order of the query
WholeList ==
    IF resp.req.op = "ListTasks"
    THEN Reverse(SetToSeq({id \in DOMAIN tasks : tasks[id].owner_id = resp.req.caller}))
    ELSE OrderTags(tags, {t \in DOMAIN tags : tags[t].owner_id = resp.req.caller})

DefaultPage ==
    /\ PageAnswered
    /\ scen = <<"", 0>>
    /\ Len(ReturnedIDs) = 3

\* a page token is refused
TokenRefused ==
    /\ PageAnswered
    /\ scen[1] = "next"
    /\ resp.code = "Unimplemented"
    /\ WholeList # <<>>

(***************************************************************************)
(* The caller's identity in the request context.  A context is the         *)
(* sequence of the values stored under the user-id key: empty when none    *)
(* was stored, and one string (which may be empty) after WithUserID.       *)
(***************************************************************************)
ErrMissingUserID == "user ID not found in context"

\* context.Background(): nothing stored under the key
NoContext == <<>>

\* WithUserID: the context now carries userID under the key
WithUserID(ctx, userID) == <<userID>>

\* GetUserID that accepts an empty user id
GetUserIDAcceptsEmpty(ctx) ==
    IF ctx = <<>> THEN <<"", ErrMissingUserID>> ELSE <<ctx[1], NoErr>>

\* GetUserID: <<userID, err>>; a missing or empty value is an error
GetUserID(ctx) ==
    IF ctx = <<>> \/ ctx[1] = "" THEN <<"", ErrMissingUserID>> ELSE <<ctx[1], NoErr>>

\* the contexts a service operation is entered with
Contexts == {NoContext, WithUserID(NoContext, ""), WithUserID(NoContext, Caller)}

\* a task or tag service operation returning GetUserID's error at its first
\* statement, and the handler mapping it
RejectNoIdentity(op, msg) ==
    /\ resp' = GRPCFail(Req(op, "", NoTask, Absent, <<>>), ErrMissingUserID, msg)
    /\ UNCHANGED storeVars

\* the same for a token service operation
RejectNoIdentityToken(op, msg) ==
    /\ resp' = ServerResp(TokenReq(op, "", NoToken, NotUUID, clock), ErrMissingUserID, msg, <<>>)
    /\ UNCHANGED <<storeVars, procs, tokenVars>>

MaxIdentityTasks == 1

\* one run creates at most MaxIdentityTasks tasks, and as many items
WithinIdentity ==
    /\ nextTaskId <= MaxIdentityTasks + 1
    /\ nextItemId <= MaxIdentityTasks + 1
    /\ nextTagId <= MaxIdentityTasks + 2

NextIdentity ==
    \/ \E ctx \in Contexts :
          /\ IF GetUserID(ctx)[2] # NoErr
             THEN RejectNoIdentity("CreateTask", "failed to create task")
             ELSE CreateTask(GetUserID(ctx)[1], "x", "", <<"a">>, Absent, <<>>, 0)
          /\ WithinIdentity'
          /\ scen' = <<ctx>>
          /\ UNCHANGED <<procs, tokenVars>>
    \/ \E ctx \in Contexts :
          /\ IF GetUserID(ctx)[2] # NoErr
             THEN RejectNoIdentity("GetTask", "failed to get task")
             ELSE GetTask(GetUserID(ctx)[1], 1)
          /\ scen' = <<ctx>>
          /\ UNCHANGED <<procs, tokenVars>>
    \/ \E ctx \in Contexts :
          /\ IF GetUserID(ctx)[2] # NoErr
             THEN RejectNoIdentity("UpdateTask", "failed to update task")
             ELSE UpdateTask(GetUserID(ctx)[1], 1, "y", "", <<"a">>, Absent, NoErr)
          /\ WithinIdentity'
          /\ scen' = <<ctx>>
          /\ UNCHANGED <<procs, tokenVars>>
    \/ \E ctx \in Contexts :
          /\ IF GetUserID(ctx)[2] # NoErr
             THEN RejectNoIdentity("DeleteTask", "failed to delete task")
             ELSE DeleteTask(GetUserID(ctx)[1], 1, NoErr)
          /\ scen' = <<ctx>>
          /\ UNCHANGED <<procs, tokenVars>>
    \/ \E ctx \in Contexts :
          /\ IF GetUserID(ctx)[2] # NoErr
             THEN RejectNoIdentity("ListTasks", "failed to list tasks")
             ELSE ListTasks(GetUserID(ctx)[1], {}, 0, FALSE, FALSE)
          /\ scen' = <<ctx>>
          /\ UNCHANGED <<procs, tokenVars>>
    \/ \E ctx \in Contexts :
          /\ IF GetUserID(ctx)[2] # NoErr
             THEN RejectNoIdentity("ArchiveTask", "failed to archive task")
             ELSE ArchiveTask(GetUserID(ctx)[1], 1)
          /\ scen' = <<ctx>>
          /\ UNCHANGED <<procs, tokenVars>>
    \/ \E ctx \in Contexts :
          /\ IF GetUserID(ctx)[2] # NoErr
             THEN RejectNoIdentity("UnarchiveTask", "failed to unarchive task")
             ELSE UnarchiveTask(GetUserID(ctx)[1], 1)
          /\ scen' = <<ctx>>
          /\ UNCHANGED <<procs, tokenVars>>
    \/ \E ctx \in Contexts :
          /\ IF GetUserID(ctx)[2] # NoErr
             THEN RejectNoIdentity("AddChecklistItem", "failed to add checklist item")
             ELSE AddChecklistItem(GetUserID(ctx)[1], 1, "c")
          /\ WithinIdentity'
          /\ scen' = <<ctx>>
          /\ UNCHANGED <<procs, tokenVars>>
    \/ \E ctx \in Contexts :
          /\ IF GetUserID(ctx)[2] # NoErr
             THEN RejectNoIdentity("UpdateChecklistItem", "failed to update checklist item")
             ELSE UpdateChecklistItem(GetUserID(ctx)[1], 1, "d")
          /\ scen' = <<ctx>>
          /\ UNCHANGED <<procs, tokenVars>>
    \/ \E ctx \in Contexts :
          /\ IF GetUserID(ctx)[2] # NoErr
             THEN RejectNoIdentity("SetChecklistItemCompleted", "failed to set checklist item completion")
             ELSE SetChecklistItemCompleted(GetUserID(ctx)[1], 1, TRUE)
          /\ scen' = <<ctx>>
          /\ UNCHANGED <<procs, tokenVars>>
    \/ \E ctx \in Contexts :
          /\ IF GetUserID(ctx)[2] # NoErr
             THEN RejectNoIdentity("DeleteChecklistItem", "failed to delete checklist item")
             ELSE DeleteChecklistItem(GetUserID(ctx)[1], 1)
          /\ scen' = <<ctx>>
          /\ UNCHANGED <<procs, tokenVars>>
    \/ \E ctx \in Contexts :
          /\ IF GetUserID(ctx)[2] # NoErr
             THEN RejectNoIdentity("ReorderChecklistItems", "failed to reorder checklist items")
             ELSE ReorderChecklistItems(GetUserID(ctx)[1], 1, <<1>>)
          /\ scen' = <<ctx>>
          /\ UNCHANGED <<procs, tokenVars>>
    \/ \E ctx \in Contexts :
          /\ IF GetUserID(ctx)[2] # NoErr
             THEN RejectNoIdentity("CreateTag", "failed to create tag")
             ELSE CreateTag(GetUserID(ctx)[1], "a")
          /\ WithinIdentity'
          /\ scen' = <<ctx>>
          /\ UNCHANGED <<procs, tokenVars>>
    \/ \E ctx \in Contexts :
          /\ IF GetUserID(ctx)[2] # NoErr
             THEN RejectNoIdentity("GetTag", "failed to get tag")
             ELSE GetTag(GetUserID(ctx)[1], 1)
          /\ scen' = <<ctx>>
          /\ UNCHANGED <<procs, tokenVars>>
    \/ \E ctx \in Contexts :
          /\ IF GetUserID(ctx)[2] # NoErr
             THEN RejectNoIdentity("UpdateTag", "failed to update tag")
             ELSE UpdateTag(GetUserID(ctx)[1], 1, "b")
          /\ scen' = <<ctx>>
          /\ UNCHANGED <<procs, tokenVars>>
    \/ \E ctx \in Contexts :
          /\ IF GetUserID(ctx)[2] # NoErr
             THEN RejectNoIdentity("DeleteTag", "failed to delete tag")
             ELSE DeleteTag(GetUserID(ctx)[1], 1)
          /\ scen' = <<ctx>>
          /\ UNCHANGED <<procs, tokenVars>>
    \/ \E ctx \in Contexts :
          /\ IF GetUserID(ctx)[2] # NoErr
             THEN RejectNoIdentity("ListTags", "failed to list tags")
             ELSE ListTags(GetUserID(ctx)[1], 0)
          /\ scen' = <<ctx>>
          /\ UNCHANGED <<procs, tokenVars>>
    \/ \E ctx \in Contexts :
          /\ IF GetUserID(ctx)[2] # NoErr
             THEN RejectNoIdentityToken("CreateToken", "failed to create MCP token")
             ELSE CreateToken(GetUserID(ctx)[1], NilTime)
          /\ scen' = <<ctx>>
    \/ \E ctx \in Contexts :
          /\ IF GetUserID(ctx)[2] # NoErr
             THEN RejectNoIdentityToken("GetToken", "failed to get MCP token")
             ELSE GetToken(GetUserID(ctx)[1], 1)
          /\ scen' = <<ctx>>
    \/ \E ctx \in Contexts :
          /\ IF GetUserID(ctx)[2] # NoErr
             THEN RejectNoIdentityToken("ListTokens", "failed to list MCP tokens")
             ELSE ListTokens(GetUserID(ctx)[1])
          /\ scen' = <<ctx>>
    \/ \E ctx \in Contexts :
          /\ IF GetUserID(ctx)[2] # NoErr
             THEN RejectNoIdentityToken("RevokeToken", "failed to revoke MCP token")
             ELSE RevokeToken(GetUserID(ctx)[1], 1)
          /\ scen' = <<ctx>>
    \/ \E ctx \in Contexts :
          /\ IF GetUserID(ctx)[2] # NoErr
             THEN RejectNoIdentityToken("DeleteToken", "failed to delete MCP token")
             ELSE DeleteToken(GetUserID(ctx)[1], 1)
          /\ scen' = <<ctx>>

SpecIdentity == Init /\ [][NextIdentity]_vars

\* the last operation was entered with a context that resolves no identity
EnteredWithoutIdentity ==
    Len(scen) = 1 /\ (scen[1] = NoContext \/ scen[1] = WithUserID(NoContext, ""))

ErrForeignKey == "foreign key violation"

NoTaskEntity == NewTask("", "", "", <<>>)

\* the request's record when it starts
NewRequest(op, u, id, title, notes, tagNames, provided, startDate) ==
    [op |-> op, pc |-> "resolve", owner |-> u, id |-> id, title |-> title, notes |-> notes,
     names |-> tagNames, provided |-> provided, start |-> startDate,
     task |-> NoTaskEntity, ids |-> <<>>, k |-> 0, err |-> NoErr,
     before |-> <<>>, at |-> ""]

\* the request returns err to its handler; at keeps where it stood
ReturnError(p, op, err, msg) ==
    /\ procs' = [procs EXCEPT ![p].pc = "failed", ![p].err = err, ![p].at = procs[p].pc]
    /\ resp' = GRPCFail(Req(op, procs[p].owner, procs[p].id, Absent, <<>>), err, msg)

\* the stored title, notes, start date and tag set of a task
StoredTask(tk, tt, id) ==
    [title |-> tk[id].title, notes |-> tk[id].notes, start_date |-> tk[id].start_date,
     tag_ids |-> {q[2] : q \in {r \in tt : r[1] = id}}]

\* Service.UpdateTask up to s.repo.Get
CallUpdateTask(p, u, id, title, notes, tagNames, provided, startDate) ==
    /\ ~Running(p)
    /\ IF ~GetTaskFound(tasks, id, u)
       THEN /\ procs' = (p :> [NewRequest("UpdateTask", u, id, title, notes, tagNames,
                                          provided, startDate)
                                  EXCEPT !.pc = "failed", !.err = ErrNoRows]) @@ procs
            /\ resp' = GRPCFail(Req("UpdateTask", u, id, Absent, <<>>), ErrNoRows,
                                "failed to update task")
       ELSE /\ procs' = (p :> [NewRequest("UpdateTask", u, id, title, notes, tagNames,
                                          provided, startDate)
                                  EXCEPT !.task = RepoGetTask(tasks, task_tags, items, id, u),
                                         !.before = <<StoredTask(tasks, task_tags, id)>>])
                            @@ procs
            /\ UNCHANGED resp
    /\ UNCHANGED storeVars

\* Service.CreateTask is entered
CallCreateTask(p, u, title, notes, tagNames, startDate) ==
    /\ ~Running(p)
    /\ procs' = (p :> NewRequest("CreateTask", u, NoTask, title, notes, tagNames,
                                 TRUE, startDate)) @@ procs
    /\ UNCHANGED <<storeVars, resp>>

\* one turn of the loop over tagNames: s.tagRepo.GetOrCreate(ctx, tagName, userID)
ResolveTagName(p) ==
    /\ Running(p) /\ procs[p].pc = "resolve"
    /\ Len(procs[p].ids) < Len(procs[p].names)
    /\ LET st == GetOrCreate([tags |-> tags, next |-> nextTagId, ids |-> procs[p].ids,
                              err |-> NoErr],
                             procs[p].names[Len(procs[p].ids) + 1], procs[p].owner)
       IN /\ tags' = st.tags
          /\ nextTagId' = st.next
          /\ IF st.err # NoErr
             THEN ReturnError(p, procs[p].op, st.err,
                              IF procs[p].op = "CreateTask" THEN "failed to create task"
                              ELSE "failed to update task")
             ELSE /\ procs' = [procs EXCEPT ![p].ids = st.ids]
                  /\ UNCHANGED resp
    /\ UNCHANGED <<tasks, nextTaskId, task_tags, items, nextItemId>>

\* TaskRepository.Update: r.queries.UpdateTask with the task the service built
\* from what it read; err is a failure of the statement itself
RepoUpdateRow(p, err) ==
    /\ Running(p) /\ procs[p].op = "UpdateTask" /\ procs[p].pc = "resolve"
    /\ Len(procs[p].ids) = Len(procs[p].names)
    /\ LET t == ServiceUpdateTask(procs[p].task, procs[p].title, procs[p].notes,
                                  procs[p].ids, procs[p].provided, procs[p].start)
       IN IF err # NoErr
          THEN /\ ReturnError(p, "UpdateTask", err, "failed to update task")
               /\ UNCHANGED tasks
          ELSE IF ~GetTaskFound(tasks, procs[p].id, t.OwnerID)
          THEN /\ ReturnError(p, "UpdateTask", ErrNoRows, "failed to update task")
               /\ UNCHANGED tasks
          ELSE /\ tasks' = [tasks EXCEPT ![procs[p].id] = UpdateTaskRow(@, t)]
               /\ procs' = [procs EXCEPT ![p].pc = "delete_tags", ![p].task = t]
               /\ UNCHANGED resp
    /\ UNCHANGED <<nextTaskId, tags, nextTagId, task_tags, items, nextItemId>>

\* TaskRepository.Update: r.queries.DeleteTaskTags
RepoDeleteTaskTags(p, err) ==
    /\ Running(p) /\ procs[p].pc = "delete_tags"
    /\ IF err # NoErr
       THEN /\ ReturnError(p, "UpdateTask", err, "failed to update task")
            /\ UNCHANGED task_tags
       ELSE /\ task_tags' = {q \in task_tags : q[1] # procs[p].id}
            /\ procs' = [procs EXCEPT ![p].pc = "create_tag"]
            /\ UNCHANGED resp
    /\ UNCHANGED <<tasks, nextTaskId, tags, nextTagId, items, nextItemId>>

\* TaskRepository.Create: r.queries.CreateTask
RepoCreateRow(p, err) ==
    /\ Running(p) /\ procs[p].op = "CreateTask" /\ procs[p].pc = "resolve"
    /\ Len(procs[p].ids) = Len(procs[p].names)
    /\ LET t == ServiceCreateTask(procs[p].title, procs[p].notes, procs[p].owner,
                                  procs[p].ids, procs[p].start)
       IN IF err # NoErr
          THEN /\ ReturnError(p, "CreateTask", err, "failed to create task")
               /\ UNCHANGED <<tasks, nextTaskId>>
          ELSE /\ tasks' = tasks @@ (nextTaskId :> CreateTaskRow(t))
               /\ nextTaskId' = nextTaskId + 1
               /\ procs' = [procs EXCEPT ![p].pc = "create_tag", ![p].id = nextTaskId,
                                         ![p].task = [t EXCEPT !.ID = nextTaskId]]
               /\ UNCHANGED resp
    /\ UNCHANGED <<tags, nextTagId, task_tags, items, nextItemId>>

\* one turn of the loop over task.TagIDs: r.queries.CreateTaskTag; the row
\* needs its task and its tag to be stored (REFERENCES tasks(id), tags(id))
RepoCreateTaskTag(p, err) ==
    /\ Running(p) /\ procs[p].pc = "create_tag"
    /\ procs[p].k < Len(procs[p].task.TagIDs)
    /\ LET tagID == procs[p].task.TagIDs[procs[p].k + 1]
           msg == IF procs[p].op = "CreateTask" THEN "failed to create task"
                  ELSE "failed to update task"
       IN IF err # NoErr
          THEN /\ ReturnError(p, procs[p].op, err, msg)
               /\ UNCHANGED task_tags
          ELSE IF tagID \notin DOMAIN tags \/ procs[p].id \notin DOMAIN tasks
          THEN /\ ReturnError(p, procs[p].op, ErrForeignKey, msg)
               /\ UNCHANGED task_tags
          ELSE /\ task_tags' = task_tags \cup {<<procs[p].id, tagID>>}
               /\ procs' = [procs EXCEPT ![p].k = @ + 1]
               /\ UNCHANGED resp
    /\ UNCHANGED <<tasks, nextTaskId, tags, nextTagId, items, nextItemId>>

\* Service.CreateTask returns the task
CreateTaskReturn(p) ==
    /\ Running(p) /\ procs[p].op = "CreateTask" /\ procs[p].pc = "create_tag"
    /\ procs[p].k = Len(procs[p].task.TagIDs)
    /\ procs' = [procs EXCEPT ![p].pc = "done"]
    /\ resp' = Resp(Req("CreateTask", procs[p].owner, procs[p].id, Absent, <<>>), "OK", "",
                    NoErr, <<taskToProto(procs[p].task)>>, <<>>, <<>>)
    /\ UNCHANGED storeVars

\* Service.UpdateTask: s.tagRepo.DeleteOrphans, then the return
UpdateTaskCleanUp(p, cleanupErr) ==
    /\ Running(p) /\ procs[p].op = "UpdateTask" /\ procs[p].pc = "create_tag"
    /\ procs[p].k = Len(procs[p].task.TagIDs)
    /\ tags' = CleanUpOrphans(tags, task_tags, procs[p].owner, cleanupErr)
    /\ procs' = [procs EXCEPT ![p].pc = "done"]
    /\ resp' = Resp(Req("UpdateTask", procs[p].owner, procs[p].id, Absent, <<>>), "OK", "",
                    NoErr, <<taskToProto(procs[p].task)>>, <<>>, <<>>)
    /\ UNCHANGED <<tasks, nextTaskId, nextTagId, task_tags, items, nextItemId>>

\* Service.DeleteTask up to s.repo.Delete
CallDeleteTask(p, u, id) ==
    /\ ~Running(p)
    /\ LET gone == DeleteTaskRows(tasks, id, u)
       IN /\ tasks' = [x \in DOMAIN tasks \ gone |-> tasks[x]]
          /\ task_tags' = CascadeTaskTags(task_tags, gone)
          /\ items' = CascadeItems(items, gone)
    /\ procs' = (p :> [NewRequest("DeleteTask", u, id, "", "", <<>>, FALSE, NilTime)
                          EXCEPT !.pc = "cleanup"]) @@ procs
    /\ UNCHANGED <<nextTaskId, tags, nextTagId, nextItemId, resp>>

\* Service.DeleteTask: s.tagRepo.DeleteOrphans, then the return
DeleteTaskCleanUp(p, cleanupErr) ==
    /\ Running(p) /\ procs[p].op = "DeleteTask" /\ procs[p].pc = "cleanup"
    /\ tags' = CleanUpOrphans(tags, task_tags, procs[p].owner, cleanupErr)
    /\ procs' = [procs EXCEPT ![p].pc = "done"]
    /\ resp' = Resp(Req("DeleteTask", procs[p].owner, procs[p].id, Absent, <<>>), "OK", "",
                    NoErr, <<>>, <<>>, <<>>)
    /\ UNCHANGED <<tasks, nextTaskId, nextTagId, task_tags, items, nextItemId>>

(***************************************************************************)
(* Two UpdateTask requests on one task.                                    *)
(***************************************************************************)
\* the start dates a request can carry: none (clear) or a day
RaceStartDates == {NilTime, 1 * TicksPerDay}

NextUpdateRace ==
    \/ \E sd \in {Absent, DateTable[1]} :
          /\ nextTaskId = 1
          /\ CreateTask(Caller, "x", "", <<>>, sd, <<>>, 0)
          /\ UNCHANGED <<scen, procs, tokenVars>>
    \/ \E p \in Requests, names \in {<<>>, <<"a">>}, provided \in BOOLEAN,
          startDate \in RaceStartDates :
          /\ p \notin DOMAIN procs
          /\ provided \/ startDate = NilTime
          /\ CallUpdateTask(p, Caller, 1, "y", "", names, provided, startDate)
          /\ UNCHANGED <<scen, tokenVars>>
    \/ \E p \in Requests : ResolveTagName(p) /\ UNCHANGED <<scen, tokenVars>>
    \/ \E p \in Requests : RepoUpdateRow(p, NoErr) /\ UNCHANGED <<scen, tokenVars>>
    \/ \E p \in Requests : RepoDeleteTaskTags(p, NoErr) /\ UNCHANGED <<scen, tokenVars>>
    \/ \E p \in Requests : RepoCreateTaskTag(p, NoErr) /\ UNCHANGED <<scen, tokenVars>>
    \/ \E p \in Requests : UpdateTaskCleanUp(p, NoErr) /\ UNCHANGED <<scen, tokenVars>>

SpecUpdateRace == Init /\ [][NextUpdateRace]_vars

\* request p writes the task row in this step
WritesRow(p) ==
    /\ p \in DOMAIN procs /\ procs[p].op = "UpdateTask"
    /\ procs[p].pc = "resolve" /\ procs'[p].pc = "delete_tags"

\* C37: whatever the interleaving of two UpdateTask requests on one task, a
\* request that omits the start-date field does not change the stored start
\* date: when its write is applied, the start date stays what the store
\* held just before (the value the other request committed), not what the
\* omitting request read earlier.
C37_OmittedStartDateKept ==
    [][\A p \in Requests :
          WritesRow(p) /\ ~procs[p].provided =>
              tasks'[procs[p].id].start_date = tasks[procs[p].id].start_date]_vars

\* an omitting request that runs alone between its read and its write keeps
\* the start date
OmittedKeptWithoutOverlap ==
    [][\A p \in Requests :
          /\ WritesRow(p) /\ ~procs[p].provided
          /\ timeToPgDate(procs[p].task.StartDate) = tasks[procs[p].id].start_date
          => tasks'[procs[p].id].start_date = tasks[procs[p].id].start_date]_vars

\* both requests have returned success, the one that set a day and the one
\* that omitted the field, and the task is stored without a start date
StartDateLost ==
    /\ DOMAIN procs = Requests
    /\ \A p \in Requests : procs[p].pc = "done"
    /\ \E p, q \in Requests :
          /\ procs[p].provided /\ procs[p].start # NilTime
          /\ ~procs[q].provided
    /\ tasks[1].start_date = NullDate

(***************************************************************************)
(* Checklist requests in flight.  AddChecklistItem and DeleteChecklistItem *)
(* are one statement each; ReorderChecklistItems is three: the list its    *)
(* check runs on, the update, and the list it returns.                     *)
(***************************************************************************)
\* Service.ReorderChecklistItems up to the comparison of the two id lists
CallReorderChecklistItems(p, u, taskID, itemIDs) ==
    /\ ~Running(p)
    /\ Len(itemIDs) > 0
    /\ IF ~ValidOrder(ListChecklistItemIDs(tasks, items, taskID, u), itemIDs)
       THEN /\ procs' = (p :> [op |-> "ReorderChecklistItems", pc |-> "failed", owner |-> u,
                               id |-> taskID, item_ids |-> itemIDs,
                               err |-> ErrInvalidChecklistOrder]) @@ procs
            /\ resp' = Fail(Req("ReorderChecklistItems", u, taskID, Absent, itemIDs),
                            "InvalidArgument",
                            "item_ids must include all checklist item IDs exactly once",
                            ErrInvalidChecklistOrder)
       ELSE /\ procs' = (p :> [op |-> "ReorderChecklistItems", pc |-> "write", owner |-> u,
                               id |-> taskID, item_ids |-> itemIDs, err |-> NoErr]) @@ procs
            /\ UNCHANGED resp
    /\ UNCHANGED storeVars

\* s.repo.ReorderChecklistItems: ReorderChecklistItems :exec
RepoReorderChecklistItems(p) ==
    /\ Running(p) /\ procs[p].pc = "write"
    /\ items' = ReorderRows(tasks, items, procs[p].id, procs[p].owner, procs[p].item_ids)
    /\ procs' = [procs EXCEPT ![p].pc = "list"]
    /\ UNCHANGED <<tasks, nextTaskId, tags, nextTagId, task_tags, nextItemId, resp>>

\* s.repo.ListChecklistItems after the update, and the return
ReorderChecklistItemsReturn(p) ==
    /\ Running(p) /\ procs[p].pc = "list"
    /\ procs' = [procs EXCEPT ![p].pc = "done"]
    /\ resp' = Resp(Req("ReorderChecklistItems", procs[p].owner, procs[p].id, Absent,
                        procs[p].item_ids), "OK", "", NoErr, <<>>,
                    ItemViews(items, ListChecklistItemIDs(tasks, items, procs[p].id,
                                                          procs[p].owner)),
                    <<>>)
    /\ UNCHANGED storeVars

MaxRaceItems == 3

\* an order names each item at most once
Injective(q) == \A a, b \in 1..Len(q) : q[a] = q[b] => a = b

NextChecklistRace ==
    \/ /\ nextTaskId = 1
       /\ CreateTask(Caller, "x", "", <<>>, Absent, <<>>, 0)
       /\ UNCHANGED <<scen, procs, tokenVars>>
    \/ /\ nextItemId <= MaxRaceItems
       /\ AddChecklistItem(Caller, 1, "c")
       /\ UNCHANGED <<scen, procs, tokenVars>>
    \/ \E i \in 1..MaxRaceItems :
          DeleteChecklistItem(Caller, i) /\ UNCHANGED <<scen, procs, tokenVars>>
    \/ \E p \in Requests, order \in SeqsUpTo(1..MaxRaceItems, MaxRaceItems) :
          /\ p \notin DOMAIN procs
          /\ Injective(order)
          /\ CallReorderChecklistItems(p, Caller, 1, order)
          /\ UNCHANGED <<scen, tokenVars>>
    \/ \E p \in Requests : RepoReorderChecklistItems(p) /\ UNCHANGED <<scen, tokenVars>>
    \/ \E p \in Requests : ReorderChecklistItemsReturn(p) /\ UNCHANGED <<scen, tokenVars>>

SpecChecklistRace == Init /\ [][NextChecklistRace]_vars

\* no two items of one task hold the same position
PositionsDistinct ==
    \A i, j \in DOMAIN items :
        items[i].task_id = items[j].task_id /\ items[i].sort_order = items[j].sort_order
            => i = j

\* request p applies its reorder statement in this step
AppliesReorder(p) ==
    p \in DOMAIN procs /\ procs[p].pc = "write" /\ procs'[p].pc = "list"

\* the statement positions every item the task has when it is applied
ReorderCoversTask(p) == ItemsOfTask(items, procs[p].id) = Range(procs[p].item_ids)

\* C38: whatever the interleaving of AddChecklistItem, DeleteChecklistItem
\* and ReorderChecklistItems requests on one task, no two items of the task
\* ever hold the same position, and a reorder that passed its membership
\* check writes to exactly the items the task has at the time of the write.
C38_ChecklistRaceFree ==
    /\ []PositionsDistinct
    /\ [][\A p \in Requests : AppliesReorder(p) => ReorderCoversTask(p)]_vars

\* the write of a reorder whose check was not overtaken covers the task
ReorderCoversWhenNotOvertaken ==
    [][\A p \in Requests :
          /\ AppliesReorder(p)
          /\ ValidOrder(ListChecklistItemIDs(tasks, items, procs[p].id, procs[p].owner),
                        procs[p].item_ids)
          => ReorderCoversTask(p) /\ PositionsDistinct']_vars

\* a reorder has returned success and two items of the task share a position
SharedPosition ==
    /\ \E p \in DOMAIN procs : procs[p].pc = "done"
    /\ ~PositionsDistinct

\* a reorder has returned success and left an item of the task unpositioned
\* by it: the item was added after the check
ReorderMissedItem ==
    \E p \in DOMAIN procs :
        /\ procs[p].pc = "done"
        /\ resp.req.op = "ReorderChecklistItems" /\ resp.code = "OK"
        /\ Len(resp.items) > Len(procs[p].item_ids)

(***************************************************************************)
(* A request that names a tag, and a request whose orphan cleanup runs     *)
(* meanwhile.  Request Tagging creates a task, or updates task 1, with the *)
(* tag names it is given; request Cleaning deletes or updates task 2 and   *)
(* then runs DeleteOrphans for the same owner.                             *)
(***************************************************************************)
Tagging == Min(Requests)
Cleaning == CHOOSE p \in Requests : p # Tagging

\* the tag names of the tagging request
OrphanRaceNames == {<<"a">>, <<"a", "b">>}

NextOrphanRace ==
    \/ /\ nextTaskId <= 2
       /\ CreateTask(Caller, "x", "", <<>>, Absent, <<>>, 0)
       /\ UNCHANGED <<scen, procs, tokenVars>>
    \/ \E names \in OrphanRaceNames :
          /\ Tagging \notin DOMAIN procs
          /\ nextTaskId = 3
          /\ CallCreateTask(Tagging, Caller, "x", "", names, NilTime)
          /\ UNCHANGED <<scen, tokenVars>>
    \/ \E p \in Requests, names \in OrphanRaceNames :
          /\ p \notin DOMAIN procs
          /\ nextTaskId = 3
          /\ CallUpdateTask(p, Caller, p, "y", "", IF p = Tagging THEN names ELSE <<>>,
                            FALSE, NilTime)
          /\ UNCHANGED <<scen, tokenVars>>
    \/ /\ Cleaning \notin DOMAIN procs
       /\ nextTaskId = 3
       /\ CallDeleteTask(Cleaning, Caller, 2)
       /\ UNCHANGED <<scen, tokenVars>>
    \/ \E p \in Requests : ResolveTagName(p) /\ UNCHANGED <<scen, tokenVars>>
    \/ \E p \in Requests : RepoCreateRow(p, NoErr) /\ UNCHANGED <<scen, tokenVars>>
    \/ \E p \in Requests : RepoUpdateRow(p, NoErr) /\ UNCHANGED <<scen, tokenVars>>
    \/ \E p \in Requests : RepoDeleteTaskTags(p, NoErr) /\ UNCHANGED <<scen, tokenVars>>
    \/ \E p \in Requests : RepoCreateTaskTag(p, NoErr) /\ UNCHANGED <<scen, tokenVars>>
    \/ \E p \in Requests : CreateTaskReturn(p) /\ UNCHANGED <<scen, tokenVars>>
    \/ \E p \in Requests : UpdateTaskCleanUp(p, NoErr) /\ UNCHANGED <<scen, tokenVars>>
    \/ \E p \in Requests : DeleteTaskCleanUp(p, NoErr) /\ UNCHANGED <<scen, tokenVars>>

SpecOrphanRace == Init /\ [][NextOrphanRace]_vars

\* every tag the running request has resolved is still stored
ResolvedTagsStored(p) == Range(procs[p].ids) \subseteq DOMAIN tags

\* the request returns success in this step
Returns(p) == p \in DOMAIN procs /\ Running(p) /\ procs'[p].pc = "done"

\* C39: the orphan cleanup of one request never removes a tag that a
\* CreateTask or UpdateTask of the same owner, still in flight, has resolved
\* with GetOrCreate and not yet attached; that request neither fails nor
\* returns without each of its requested tags attached to its task.
C39_CleanupSparesResolvedTags ==
    /\ [](Tagging \in DOMAIN procs =>
             /\ Running(Tagging) => ResolvedTagsStored(Tagging)
             /\ procs[Tagging].pc # "failed")
    /\ [][Returns(Tagging) =>
             \A k \in 1..Len(procs[Tagging].ids) :
                 <<procs'[Tagging].id, procs[Tagging].ids[k]>> \in task_tags']_vars

\* the tagging request has failed on the foreign key of task_tags: the tag it
\* resolved is gone, and the cleaning request has returned success
AttachRefused ==
    /\ DOMAIN procs = Requests
    /\ procs[Tagging].pc = "failed" /\ procs[Tagging].err = ErrForeignKey
    /\ resp.code = "Internal"
    /\ procs[Cleaning].pc = "done"
    /\ tags = <<>>

\* without a cleanup between its GetOrCreate and its attach the tagging
\* request succeeds with the tag attached
TaggingAloneSucceeds ==
    (/\ Tagging \in DOMAIN procs /\ procs[Tagging].pc = "done"
     /\ Cleaning \notin DOMAIN procs)
        => \A k \in 1..Len(procs[Tagging].ids) :
               <<procs[Tagging].id, procs[Tagging].ids[k]>> \in task_tags

(***************************************************************************)
(* One UpdateTask at a time, any of whose statements may fail.             *)
(***************************************************************************)
MaxStepTags == 3

\* the tag names of the update: none, a new name, a kept and a new name, a
\* name the column refuses
UpdateStepNames == {<<>>, <<"b">>, <<"a", "b">>, <<LongName>>}

StatementErrs == {NoErr, ErrStore}

NextUpdateSteps ==
    \/ \E sd \in {Absent, DateTable[1]} :
          /\ nextTaskId = 1
          /\ CreateTask(Caller, "x", "", <<"a">>, sd, <<>>, 0)
          /\ UNCHANGED <<scen, procs, tokenVars>>
    \/ \E names \in UpdateStepNames, provided \in BOOLEAN :
          /\ CallUpdateTask(Tagging, Caller, 1, "y", "n", names, provided, NilTime)
          /\ UNCHANGED <<scen, tokenVars>>
    \/ /\ ResolveTagName(Tagging)
       /\ nextTagId' <= MaxStepTags + 1
       /\ UNCHANGED <<scen, tokenVars>>
    \/ \E err \in StatementErrs : RepoUpdateRow(Tagging, err) /\ UNCHANGED <<scen, tokenVars>>
    \/ \E err \in StatementErrs :
          RepoDeleteTaskTags(Tagging, err) /\ UNCHANGED <<scen, tokenVars>>
    \/ \E err \in StatementErrs :
          RepoCreateTaskTag(Tagging, err) /\ UNCHANGED <<scen, tokenVars>>
    \/ \E err \in StatementErrs :
          UpdateTaskCleanUp(Tagging, err) /\ UNCHANGED <<scen, tokenVars>>

SpecUpdateSteps == Init /\ [][NextUpdateSteps]_vars

\* the update has returned an error after it had read the task
UpdateFailed ==
    /\ Tagging \in DOMAIN procs
    /\ procs[Tagging].op = "UpdateTask" /\ procs[Tagging].pc = "failed"
    /\ procs[Tagging].before # <<>>

\* the task is stored as the update found it
TaskAsBefore ==
    StoredTask(tasks, task_tags, procs[Tagging].id) = procs[Tagging].before[1]

\* C40: whenever UpdateTask returns an error (from the tag resolution, from
\* the update of the task row, from the deletion or the insertion of the tag
\* associations), the stored title, notes, start date and tag set of the
\* task are those from before the call.
C40_UpdateAllOrNothing == UpdateFailed => TaskAsBefore

\* a failure of the tag resolution or of the row update itself leaves the
\* task as it was
EarlyFailureKeepsTask ==
    UpdateFailed /\ procs[Tagging].at = "resolve" => TaskAsBefore

\* the update answered Internal with the new title stored and the tag set
\* emptied
HalfUpdated ==
    /\ UpdateFailed
    /\ procs[Tagging].at = "create_tag"
    /\ resp.req.op = "UpdateTask" /\ resp.code = "Internal"
    /\ tasks[1].title = "y"
    /\ procs[Tagging].before[1].tag_ids # {}
    /\ StoredTask(tasks, task_tags, 1).tag_ids = {}

=============================================================================
